---- MODULE Spec2Model ----
(***************************************************************************)
(* Session-bound encrypted-token lifecycle of baai-sahab (customauth):     *)
(* issuance (create_session), the Fernet(JWT(claims)) envelope, the        *)
(* validation pipeline (decrypt_and_decode_token), soft / hard revocation  *)
(* (revoke_session) and the HTTP views and auth helpers built on them.     *)
(*                                                                         *)
(* The database runs in autocommit mode: every ORM query is one atomic     *)
(* step, and a view that issues a write after earlier reads is modelled    *)
(* as a request in flight (reqs) that other requests interleave with.      *)
(***************************************************************************)
EXTENDS Integers, FiniteSets, Sequences, TLC

(***************************************************************************)
(* Bounds of the model.                                                    *)
(***************************************************************************)
\* users that can ever sign up (distinct phone numbers)
MaxUsers == 2
\* UserSession rows ever inserted
MaxSessions == 2
\* uuid4() draws for version_id by rotate_version
MaxRotations == 2
\* the clock runs from 0 to MaxClock ticks
MaxClock == 2
\* clock ticks per second: datetime.timestamp() is fractional, int() truncates
TicksPerSecond == 2
\* settings.JWT_ACCESS_TOKEN_LIFETIME ranges over 0..MaxLifetime seconds
MaxLifetime == 1
\* requests of one multi-step view (logout, revoke-all) in flight at once
MaxInFlight == 1
\* credentials minted for sessions that exist already
MaxReissues == 1
\* UserSession objects a caller of revoke_session holds in memory at once
MaxHeld == 2

UserIds == 1..MaxUsers
SessionIds == 1..MaxSessions
VersionIds == 1..(MaxSessions + MaxRotations)
ReqIds == {"logout", "revoke_all"} \X (1..MaxInFlight)

\* Python None for an id, a payload field that is absent, an absent row
None == 0
\* a payload without "exp"
NoExp == -1
\* a payload id that is not the text of a UUID
BadUuid == -2

Passwords == {"pw1", "pw2"}
\* User.UserType.choices
UserTypes == {"admin", "user", "helper"}

\* settings.JWT_ENCRYPTION_KEY / settings.JWT_SECRET_KEY of this process, and
\* the key / secret of somebody else
ServerKey == "K"
OtherKey == "K_other"
ServerSecret == "S"
OtherSecret == "S_other"

VARIABLES
    users,      \* table customauth_user: id -> row
    sessions,   \* table customauth_usersession: id -> row
    nextSid,    \* number of UserSession rows inserted so far
    nextVer,    \* number of uuid4() draws by rotate_version so far
    now,        \* the clock, in ticks
    cfg,        \* django settings read by token_utils
    issued,     \* credentials handed out by signup / signin
    reqs,       \* requests in flight between two queries
    resp,       \* the response / return value the last step produced, if any
    retired,    \* history: version ids replaced by a completed soft revoke
    hardRevoked,\* history: session ids on which a hard revoke completed
    lastRA      \* history: per user, the last completed revoke-all

vars == <<users, sessions, nextSid, nextVer, now, cfg, issued, reqs, resp,
          retired, hardRevoked, lastRA>>


(***************************************************************************)
(* Time helpers.                                                           *)
(***************************************************************************)
\* _now(): the clock, a fractional number of seconds (ticks / TicksPerSecond)
_now == now

\* int(x) of a non-negative timestamp given in ticks: whole seconds
IntSeconds(ticks) == ticks \div TicksPerSecond

\* settings.JWT_ACCESS_TOKEN_LIFETIME is None
NoLifetime == -1

\* _get_access_lifetime_seconds(): the seconds, or a RuntimeError
_get_access_lifetime_seconds(c) ==
    IF c.lifetime = NoLifetime THEN [fault |-> TRUE, value |-> 0]
    ELSE [fault |-> FALSE, value |-> c.lifetime]

(***************************************************************************)
(* Crypto helpers.  Fernet and JWT are modelled symbolically: a Fernet     *)
(* token remembers the key it was encrypted under and whether it is still  *)
(* intact, a JWT remembers the secret it was signed with.                  *)
(***************************************************************************)
\* a string that is no JWT at all
NotJwt == [secret |-> "none",
           payload |-> [user_id |-> None, session_id |-> None,
                        session_version_id |-> None, type |-> "none",
                        iat |-> 0, exp |-> NoExp]]

\* the empty string
EmptyToken == [form |-> "empty", key |-> "none", intact |-> FALSE, plain |-> NotJwt]
\* a non-empty string that is no Fernet token
GarbageToken == [form |-> "garbage", key |-> "none", intact |-> FALSE, plain |-> NotJwt]

\* jwt.encode(payload, secret, algorithm=alg)
JwtEncode(payload, secret) == [secret |-> secret, payload |-> payload]

\* Fernet(key).encrypt(plain)
FernetEncrypt(key, plain) ==
    [form |-> "fernet", key |-> key, intact |-> TRUE, plain |-> plain]

\* Fernet.decrypt first decodes the string with base64.urlsafe_b64decode, which
\* discards characters outside the alphabet and ignores the unused bits of the
\* last one: a Fernet token with such characters added ("fernet_padded")
\* decodes to the bytes of the token itself
FernetForms == {"fernet", "fernet_padded"}
Padded(c) == [c EXCEPT !.form = "fernet_padded"]

\* _get_fernet(): "RuntimeError" (key not set), "ValueError" (Fernet(key)
\* rejects a malformed key) or "ok"
_get_fernet(c) ==
    IF c.key = "" THEN "RuntimeError"
    ELSE IF c.key = "malformed" THEN "ValueError"
    ELSE "ok"

\* _get_jwt_params(): a RuntimeError when the secret or the algorithm is not set
_get_jwt_params(c) ==
    IF c.secret = "" \/ c.alg = "" THEN "RuntimeError" ELSE "ok"

\* a decryption that does not verify the HMAC of the token
FernetDecrypt_unverified(key, token) ==
    IF token.form \in FernetForms /\ token.key = key
    THEN [ok |-> TRUE, plain |-> token.plain]
    ELSE [ok |-> FALSE, plain |-> NotJwt]

\* Fernet(key).decrypt(token) without ttl: the plaintext, or InvalidToken
FernetDecrypt(key, token) ==
    IF token.form \in FernetForms /\ token.key = key /\ token.intact
    THEN [ok |-> TRUE, plain |-> token.plain]
    ELSE [ok |-> FALSE, plain |-> NotJwt]

\* jwt.decode that lets a token live through the second it expires in
JwtDecode_strict(token, secret, t) ==
    IF token.secret # secret THEN "invalid_token"
    ELSE IF token.payload.exp # NoExp /\ token.payload.exp * TicksPerSecond < t
         THEN "token_expired"
    ELSE "ok"

\* jwt.decode called with a leeway of one second
JwtDecode_leeway(token, secret, t) ==
    IF token.secret # secret THEN "invalid_token"
    ELSE IF token.payload.exp # NoExp
            /\ (token.payload.exp + 1) * TicksPerSecond <= t
         THEN "token_expired"
    ELSE "ok"

\* jwt.decode(token, secret, algorithms=[alg]) at clock t (ticks): the
\* signature is verified first, then "exp" (expired when exp <= now)
JwtDecode(token, secret, t) ==
    IF token.secret # secret THEN "invalid_token"
    ELSE IF token.payload.exp # NoExp /\ token.payload.exp * TicksPerSecond <= t
         THEN "token_expired"
    ELSE "ok"

(***************************************************************************)
(* Session helpers (DB).                                                   *)
(***************************************************************************)
\* the uuid4() default of UserSession.id for the n-th inserted row
FreshSessionId(n) == n + 1
\* a default of uuid.uuid4(), called once when the model class is defined
FreshRowVersion_once(sid) == 1
\* the uuid4() default of UserSession.version_id of the row with that id
FreshRowVersion(sid) == sid
\* a uuid4() drawn once, when the module is loaded, and used by every rotation
FreshRotation_once(n) == MaxSessions + 1
\* the uuid4() drawn by the n-th rotate_version: unlike every row default
FreshRotation(n) == MaxSessions + n + 1

\* table.insert
Insert(table, id, row) == [i \in DOMAIN table \cup {id} |-> IF i = id THEN row ELSE table[i]]
\* DELETE FROM table WHERE id = id: no row is no error
Delete(table, id) == [i \in DOMAIN table \ {id} |-> table[i]]

\* a row creation that also hands the session created last to the user
_create_session_row_adopt(tbl, n, user_id, t) ==
    Insert([s \in DOMAIN tbl |->
               IF s = n THEN [tbl[s] EXCEPT !.user_id = user_id] ELSE tbl[s]],
           FreshSessionId(n),
           [user_id |-> user_id, version_id |-> FreshRowVersion(FreshSessionId(n)),
            created_at |-> t, updated_at |-> t])

\* _create_session_row(user): UserSession.objects.create(user=user)
_create_session_row(tbl, n, user_id, t) ==
    Insert(tbl, FreshSessionId(n),
           [user_id |-> user_id, version_id |-> FreshRowVersion(FreshSessionId(n)),
            created_at |-> t, updated_at |-> t])

\* AccessPayload without the snapshot of the row's version_id
AccessPayload_noversion(user_id, sid, version_id, t, exp_seconds) ==
    [user_id |-> user_id, session_id |-> sid, session_version_id |-> None,
     type |-> "access",
     iat |-> IntSeconds(t),
     exp |-> IntSeconds(t + exp_seconds * TicksPerSecond)]

\* a payload whose "exp" is the time of minting, the lifetime left out
AccessPayload_no_lifetime(user_id, sid, version_id, t, exp_seconds) ==
    [user_id |-> user_id, session_id |-> sid, session_version_id |-> version_id,
     type |-> "access",
     iat |-> IntSeconds(t),
     exp |-> IntSeconds(t)]

\* the payload built by create_encrypted_access_token_for_session
AccessPayload(user_id, sid, version_id, t, exp_seconds) ==
    [user_id |-> user_id, session_id |-> sid, session_version_id |-> version_id,
     type |-> "access",
     iat |-> IntSeconds(t),
     exp |-> IntSeconds(t + exp_seconds * TicksPerSecond)]

\* a token minted with the version_id the row was created with
create_encrypted_access_token_for_session_stale(sid, row, c, t) ==
    IF _get_access_lifetime_seconds(c).fault \/ _get_jwt_params(c) # "ok"
       \/ _get_fernet(c) # "ok"
    THEN [fault |-> TRUE, token |-> EmptyToken]
    ELSE [fault |-> FALSE,
          token |-> FernetEncrypt(c.key,
                      JwtEncode(AccessPayload(row.user_id, sid, FreshRowVersion(sid), t,
                                              _get_access_lifetime_seconds(c).value),
                                c.secret))]

\* create_encrypted_access_token_for_session(session): the token, or a
\* RuntimeError from the first setting found missing
create_encrypted_access_token_for_session(sid, row, c, t) ==
    IF _get_access_lifetime_seconds(c).fault \/ _get_jwt_params(c) # "ok"
       \/ _get_fernet(c) # "ok"
    THEN [fault |-> TRUE, token |-> EmptyToken]
    ELSE [fault |-> FALSE,
          token |-> FernetEncrypt(c.key,
                      JwtEncode(AccessPayload(row.user_id, sid, row.version_id, t,
                                              _get_access_lifetime_seconds(c).value),
                                c.secret))]

\* rotate_version that sets the new version_id on the object and never saves it
rotate_version_unsaved(tbl, sid, fresh, t) ==
    [fault |-> sid \notin DOMAIN tbl, table |-> tbl]

\* rotate_version whose UPDATE has no WHERE clause
rotate_version_nowhere(tbl, sid, fresh, t) ==
    [fault |-> sid \notin DOMAIN tbl,
     table |-> [i \in DOMAIN tbl |->
                  [tbl[i] EXCEPT !.version_id = fresh, !.updated_at = t]]]

\* rotate_version that calls save() without update_fields: Django then
\* INSERTs the object when its UPDATE matched no row (the owner of the stale
\* object is not known here and left out)
rotate_version_upsert(tbl, sid, fresh, t) ==
    IF sid \in DOMAIN tbl
    THEN [fault |-> FALSE,
          table |-> [tbl EXCEPT ![sid].version_id = fresh, ![sid].updated_at = t]]
    ELSE [fault |-> FALSE,
          table |-> [i \in DOMAIN tbl \cup {sid} |->
                       IF i = sid
                       THEN [user_id |-> None, version_id |-> fresh,
                             created_at |-> t, updated_at |-> t]
                       ELSE tbl[i]]]

\* rotate_version that saves with update_fields=["version_id"] only
rotate_version_version_only(tbl, sid, fresh, t) ==
    IF sid \in DOMAIN tbl
    THEN [fault |-> FALSE, table |-> [tbl EXCEPT ![sid].version_id = fresh]]
    ELSE [fault |-> TRUE, table |-> tbl]

\* UserSession.rotate_version(): UPDATE ... SET version_id, updated_at WHERE id;
\* save(update_fields=...) raises DatabaseError when no row was updated
rotate_version(tbl, sid, fresh, t) ==
    IF sid \in DOMAIN tbl
    THEN [fault |-> FALSE,
          table |-> [tbl EXCEPT ![sid].version_id = fresh, ![sid].updated_at = t]]
    ELSE [fault |-> TRUE, table |-> tbl]

\* revoke_session that ignores hard_delete and always rotates
revoke_session_soft(tbl, sid, hard_delete, fresh, t) ==
    [fault |-> sid \notin DOMAIN tbl,
     table |-> IF sid \in DOMAIN tbl
               THEN [tbl EXCEPT ![sid].version_id = fresh, ![sid].updated_at = t]
               ELSE tbl]

\* revoke_session whose hard delete removes every row of the session's owner
revoke_session_all_of_owner(tbl, sid, hard_delete, fresh, t) ==
    IF hard_delete
    THEN [fault |-> FALSE,
          table |-> IF sid \in DOMAIN tbl
                    THEN [i \in {j \in DOMAIN tbl : tbl[j].user_id # tbl[sid].user_id}
                            |-> tbl[i]]
                    ELSE tbl]
    ELSE rotate_version(tbl, sid, fresh, t)

\* revoke_session(session, hard_delete) on the in-memory object with that id
revoke_session(tbl, sid, hard_delete, fresh, t) ==
    IF hard_delete
    THEN [fault |-> FALSE, table |-> Delete(tbl, sid)]
    ELSE rotate_version(tbl, sid, fresh, t)

(***************************************************************************)
(* Token decode / validation.                                              *)
(***************************************************************************)
Result(user, session, error) == [user |-> user, session |-> session, error |-> error]

\* the claims checked with the user looked up before the type is compared
ValidateClaims_lookup_first(payload, expected_type, utbl, stbl) ==
    IF payload.user_id = None
    THEN Result(None, None, "user_id_missing")
    ELSE IF payload.user_id \notin DOMAIN utbl
    THEN Result(None, None, "user_not_found")
    ELSE IF expected_type # "None" /\ payload.type # expected_type
    THEN Result(None, None, "invalid_type")
    ELSE IF payload.session_id = None
    THEN Result(payload.user_id, None, "session_id_missing")
    ELSE IF payload.session_id \notin DOMAIN stbl
    THEN Result(payload.user_id, None, "session_not_found")
    ELSE IF stbl[payload.session_id].user_id # payload.user_id
    THEN Result(payload.user_id, None, "session_user_mismatch")
    ELSE IF payload.session_version_id = None
            \/ stbl[payload.session_id].version_id # payload.session_version_id
    THEN Result(payload.user_id, payload.session_id, "session_version_mismatch")
    ELSE Result(payload.user_id, payload.session_id, "None")

\* the claims checked with the user forgotten when the session lookup misses
ValidateClaims_nopartial(payload, expected_type, utbl, stbl) ==
    IF expected_type # "None" /\ payload.type # expected_type
    THEN Result(None, None, "invalid_type")
    ELSE IF payload.user_id = None
    THEN Result(None, None, "user_id_missing")
    ELSE IF payload.user_id = BadUuid
    THEN Result(None, None, "fault:ValidationError")
    ELSE IF payload.user_id \notin DOMAIN utbl
    THEN Result(None, None, "user_not_found")
    ELSE IF payload.session_id = None
    THEN Result(payload.user_id, None, "session_id_missing")
    ELSE IF payload.session_id = BadUuid
    THEN Result(None, None, "fault:ValidationError")
    ELSE IF payload.session_id \notin DOMAIN stbl
    THEN Result(None, None, "session_not_found")
    ELSE IF stbl[payload.session_id].user_id # payload.user_id
    THEN Result(payload.user_id, None, "session_user_mismatch")
    ELSE IF payload.session_version_id = None
            \/ stbl[payload.session_id].version_id # payload.session_version_id
    THEN Result(payload.user_id, payload.session_id, "session_version_mismatch")
    ELSE Result(payload.user_id, payload.session_id, "None")

\* the claims checked with the version compared only when the claim is there
ValidateClaims_optional_version(payload, expected_type, utbl, stbl) ==
    IF expected_type # "None" /\ payload.type # expected_type
    THEN Result(None, None, "invalid_type")
    ELSE IF payload.user_id = None
    THEN Result(None, None, "user_id_missing")
    ELSE IF payload.user_id = BadUuid
    THEN Result(None, None, "fault:ValidationError")
    ELSE IF payload.user_id \notin DOMAIN utbl
    THEN Result(None, None, "user_not_found")
    ELSE IF payload.session_id = None
    THEN Result(payload.user_id, None, "session_id_missing")
    ELSE IF payload.session_id = BadUuid
    THEN Result(None, None, "fault:ValidationError")
    ELSE IF payload.session_id \notin DOMAIN stbl
    THEN Result(payload.user_id, None, "session_not_found")
    ELSE IF stbl[payload.session_id].user_id # payload.user_id
    THEN Result(payload.user_id, None, "session_user_mismatch")
    ELSE IF payload.session_version_id # None
            /\ stbl[payload.session_id].version_id # payload.session_version_id
    THEN Result(payload.user_id, payload.session_id, "session_version_mismatch")
    ELSE Result(payload.user_id, payload.session_id, "None")

\* the part of decrypt_and_decode_token after jwt.decode succeeded
ValidateClaims(payload, expected_type, utbl, stbl) ==
    IF expected_type # "None" /\ payload.type # expected_type
    THEN Result(None, None, "invalid_type")
    ELSE IF payload.user_id = None
    THEN Result(None, None, "user_id_missing")
    ELSE IF payload.user_id = BadUuid
    THEN Result(None, None, "fault:ValidationError")
    ELSE IF payload.user_id \notin DOMAIN utbl
    THEN Result(None, None, "user_not_found")
    ELSE IF payload.session_id = None
    THEN Result(payload.user_id, None, "session_id_missing")
    ELSE IF payload.session_id = BadUuid
    THEN Result(None, None, "fault:ValidationError")
    ELSE IF payload.session_id \notin DOMAIN stbl
    THEN Result(payload.user_id, None, "session_not_found")
    ELSE IF stbl[payload.session_id].user_id # payload.user_id
    THEN Result(payload.user_id, None, "session_user_mismatch")
    ELSE IF payload.session_version_id = None
            \/ stbl[payload.session_id].version_id # payload.session_version_id
    THEN Result(payload.user_id, payload.session_id, "session_version_mismatch")
    ELSE Result(payload.user_id, payload.session_id, "None")

\* decrypt_and_decode_token(encrypted_token, expected_type) against the
\* tables utbl, stbl under settings c at clock t
decrypt_and_decode_token(token, expected_type, utbl, stbl, c, t) ==
    IF token.form = "empty"
    THEN Result(None, None, "invalid_encrypted")
    ELSE IF _get_fernet(c) = "RuntimeError"
    THEN Result(None, None, "fault:RuntimeError")
    ELSE IF _get_fernet(c) = "ValueError" \/ ~FernetDecrypt(c.key, token).ok
    THEN Result(None, None, "invalid_encrypted")
    ELSE IF _get_jwt_params(c) # "ok"
    THEN Result(None, None, "fault:RuntimeError")
    ELSE IF JwtDecode(FernetDecrypt(c.key, token).plain, c.secret, t) # "ok"
    THEN Result(None, None, JwtDecode(FernetDecrypt(c.key, token).plain, c.secret, t))
    ELSE ValidateClaims(FernetDecrypt(c.key, token).plain.payload, expected_type,
                        utbl, stbl)

\* the (payload, error_code) of decrypt_and_get_payload
PayloadResult(payload, error) == [payload |-> payload, error |-> error]

\* decrypt_and_get_payload that decodes with verify_signature switched off
decrypt_and_get_payload_unverified(token, c, t) ==
    IF token.form = "empty"
    THEN PayloadResult(NotJwt.payload, "invalid_encrypted")
    ELSE IF _get_fernet(c) = "RuntimeError"
    THEN PayloadResult(NotJwt.payload, "fault:RuntimeError")
    ELSE IF _get_fernet(c) = "ValueError" \/ ~FernetDecrypt(c.key, token).ok
    THEN PayloadResult(NotJwt.payload, "invalid_encrypted")
    ELSE IF _get_jwt_params(c) # "ok"
    THEN PayloadResult(NotJwt.payload, "fault:RuntimeError")
    ELSE IF FernetDecrypt(c.key, token).plain = NotJwt
    THEN PayloadResult(NotJwt.payload, "invalid_token")
    ELSE PayloadResult(FernetDecrypt(c.key, token).plain.payload, "None")

\* decrypt_and_get_payload(encrypted_token) under settings c at clock t: the
\* payload of the JWT, or (None, error_code); no table is read
decrypt_and_get_payload(token, c, t) ==
    IF token.form = "empty"
    THEN PayloadResult(NotJwt.payload, "invalid_encrypted")
    ELSE IF _get_fernet(c) = "RuntimeError"
    THEN PayloadResult(NotJwt.payload, "fault:RuntimeError")
    ELSE IF _get_fernet(c) = "ValueError" \/ ~FernetDecrypt(c.key, token).ok
    THEN PayloadResult(NotJwt.payload, "invalid_encrypted")
    ELSE IF _get_jwt_params(c) # "ok"
    THEN PayloadResult(NotJwt.payload, "fault:RuntimeError")
    ELSE IF JwtDecode(FernetDecrypt(c.key, token).plain, c.secret, t) # "ok"
    THEN PayloadResult(NotJwt.payload,
                       JwtDecode(FernetDecrypt(c.key, token).plain, c.secret, t))
    ELSE PayloadResult(FernetDecrypt(c.key, token).plain.payload, "None")

\* the call as the views make it: default expected_type, the current tables
Validate(token) == decrypt_and_decode_token(token, "access", users, sessions, cfg, now)

(***************************************************************************)
(* Users.                                                                  *)
(***************************************************************************)
\* make_password(raw_password)
make_password(raw) == <<"hashed", raw>>
\* a check that accepts every password
check_password_any(row, raw) == TRUE
\* User.check_password(raw_password)
check_password(row, raw) == row.password = make_password(raw)

(***************************************************************************)
(* Credentials a client of the views may present.                          *)
(***************************************************************************)
\* what the clients of the views present: an issued credential, or junk
Presentable == issued \cup {EmptyToken, GarbageToken}

(***************************************************************************)
(* HTTP plumbing.                                                          *)
(***************************************************************************)
\* the Authorization header: absent (or another scheme), or "Bearer <token>"
NoHeader == [bearer |-> FALSE, token |-> EmptyToken]
Bearer(token) == [bearer |-> TRUE, token |-> token]
Headers == {NoHeader} \cup {Bearer(c) : c \in Presentable \ {EmptyToken}}

\* _get_bearer_token(request): the token, or None
_get_bearer_token(h) ==
    IF ~h.bearer \/ h.token.form = "empty"
    THEN [none |-> TRUE, token |-> EmptyToken]
    ELSE [none |-> FALSE, token |-> h.token]

\* the (user, error_response) of an auth helper, as the status it answers
\* with (200: the view goes on) and the user it hands to the view
Reply(status, user, res) == [status |-> status, user |-> user, res |-> res]

\* no decrypt_and_decode_token call was made: the header carries no token
NoToken == Result(None, None, "no_bearer_token")

\* _require_auth that rejects only when there is an error and no user
_require_auth_and(h, allowed_types) ==
    IF _get_bearer_token(h).none THEN Reply(401, None, NoToken)
    ELSE LET res == Validate(_get_bearer_token(h).token) IN
         IF res.error # "None" /\ res.user = None THEN Reply(401, None, res)
         ELSE IF allowed_types # {"None"} /\ users[res.user].user_type \notin allowed_types
         THEN Reply(403, None, res)
         ELSE Reply(200, res.user, res)

\* _require_auth(request, allowed_types) of matching, userprofile, search,
\* filter; chat and mediahandling call it with no allowed_types ("None")
_require_auth(h, allowed_types) ==
    IF _get_bearer_token(h).none THEN Reply(401, None, NoToken)
    ELSE LET res == Validate(_get_bearer_token(h).token) IN
         IF res.error # "None" \/ res.user = None THEN Reply(401, None, res)
         ELSE IF allowed_types # {"None"} /\ users[res.user].user_type \notin allowed_types
         THEN Reply(403, None, res)
         ELSE Reply(200, res.user, res)

\* _require_admin(request) of adminstats
_require_admin(h) ==
    IF _get_bearer_token(h).none THEN Reply(401, None, NoToken)
    ELSE LET res == Validate(_get_bearer_token(h).token) IN
         IF res.error # "None" \/ res.user = None THEN Reply(401, None, res)
         ELSE IF users[res.user].user_type # "admin" THEN Reply(403, None, res)
         ELSE Reply(200, res.user, res)

(***************************************************************************)
(* Requests in flight and responses.                                       *)
(***************************************************************************)
Idle == [pc |-> "idle", user |-> None, sid |-> None, todo |-> {}, listed |-> 0]

\* a new request of a multi-step view runs in the first free slot of the view
FreeSlots(view) == {r \in ReqIds : r[1] = view /\ reqs[r].pc = "idle"}
FirstFree(view) == CHOOSE r \in FreeSlots(view) : \A q \in FreeSlots(view) : r[2] <= q[2]

\* repeat: the step validated the credential the step before it validated
Response(view, h, status, res) ==
    [view |-> view, cred |-> h.token, status |-> status,
     user |-> res.user, session |-> res.session, error |-> res.error,
     expected |-> "access", repeat |-> FALSE, payload |-> NotJwt.payload]

NoResult == Result(None, None, "None")

\* the last step answered no request
NoResponse == Response("none", NoHeader, 0, NoResult)

\* the response of the last step has gone out to the client: the next request
\* or query is served
Ready == resp = NoResponse

(***************************************************************************)
(* Initial state: empty tables, settings loaded, nothing in flight.        *)
(***************************************************************************)
GoodSettings == {[lifetime |-> l, secret |-> ServerSecret, alg |-> "HS256", key |-> ServerKey]
                 : l \in 0..MaxLifetime}

InitTables ==
    /\ users = << >>
    /\ sessions = << >>
    /\ nextSid = 0
    /\ nextVer = 0
    /\ now = 0
    /\ issued = {}
    /\ reqs = [r \in ReqIds |-> Idle]
    /\ resp = NoResponse
    /\ retired = {}
    /\ hardRevoked = {}
    /\ lastRA = [u \in UserIds |-> [listed |-> 0, done |-> 0]]

Init == InitTables /\ cfg \in GoodSettings

(***************************************************************************)
(* The response of a step is observed in resp and then sent.               *)
(***************************************************************************)
deliver ==
    /\ ~Ready
    /\ resp' = NoResponse
    /\ UNCHANGED <<users, sessions, nextSid, nextVer, now, cfg, issued, reqs,
                   retired, hardRevoked, lastRA>>

(***************************************************************************)
(* The clock.                                                              *)
(***************************************************************************)
Tick ==
    /\ Ready
    /\ now < MaxClock
    /\ now' = now + 1
    /\ resp' = NoResponse
    /\ UNCHANGED <<users, sessions, nextSid, nextVer, cfg, issued, reqs,
                   retired, hardRevoked, lastRA>>

(***************************************************************************)
(* Issuance.                                                               *)
(***************************************************************************)
\* create_session(user): the row is inserted, then the token is minted; a
\* RuntimeError of the minting leaves the row behind
create_session(view, status, user_id) ==
    LET sid == FreshSessionId(nextSid)
        tbl == _create_session_row(sessions, nextSid, user_id, _now)
        made == create_encrypted_access_token_for_session(sid, tbl[sid], cfg, _now)
    IN /\ sessions' = tbl
       /\ nextSid' = nextSid + 1
       /\ IF made.fault
          THEN /\ issued' = issued
               /\ resp' = Response(view, NoHeader, 500,
                                   Result(None, None, "fault:RuntimeError"))
          ELSE /\ issued' = issued \cup {made.token}
               /\ resp' = Response(view, Bearer(made.token), status,
                                   Result(user_id, sid, "None"))

\* the uuid4() default of User.id for the n-th inserted row; a user is known
\* by that id and by one phone number, named by the same number
FreshUserId(n) == n + 1

\* a sign-up that allows every value of User.UserType.choices
signup_view_choices(phone, user_type, password) ==
    /\ Ready
    /\ phone <= FreshUserId(Cardinality(DOMAIN users))
    /\ IF user_type \notin UserTypes \/ phone \in DOMAIN users
       THEN /\ resp' = Response("signup", NoHeader, 400, NoResult)
            /\ UNCHANGED <<users, sessions, nextSid, issued>>
       ELSE /\ nextSid < MaxSessions
            /\ users' = Insert(users, phone, [user_type |-> user_type,
                                              password |-> make_password(password)])
            /\ create_session("signup", 201, phone)
    /\ UNCHANGED <<nextVer, now, cfg, reqs, retired, hardRevoked, lastRA>>

\* signup_view: POST /auth/signup/
signup_view(phone, user_type, password) ==
    /\ Ready
    /\ phone <= FreshUserId(Cardinality(DOMAIN users))
    /\ IF user_type \notin {"user", "helper"} \/ phone \in DOMAIN users
       THEN /\ resp' = Response("signup", NoHeader, 400, NoResult)
            /\ UNCHANGED <<users, sessions, nextSid, issued>>
       ELSE /\ nextSid < MaxSessions
            /\ users' = Insert(users, phone, [user_type |-> user_type,
                                              password |-> make_password(password)])
            /\ create_session("signup", 201, phone)
    /\ UNCHANGED <<nextVer, now, cfg, reqs, retired, hardRevoked, lastRA>>

\* signin_view: POST /auth/signin/
signin_view(phone, password) ==
    /\ Ready
    /\ IF phone \notin DOMAIN users
       THEN /\ resp' = Response("signin", NoHeader, 400, NoResult)
            /\ UNCHANGED <<sessions, nextSid, issued>>
       ELSE IF ~check_password(users[phone], password)
       THEN /\ resp' = Response("signin", NoHeader, 400, NoResult)
            /\ UNCHANGED <<sessions, nextSid, issued>>
       ELSE /\ nextSid < MaxSessions
            /\ create_session("signin", 200, phone)
    /\ UNCHANGED <<users, nextVer, now, cfg, reqs, retired, hardRevoked, lastRA>>

(***************************************************************************)
(* Validation and the endpoints behind the auth helpers.                   *)
(***************************************************************************)
\* a validation that stamps the session it found as used
validate_touch(token) ==
    /\ Ready \/ resp.view = "validate"
    /\ resp' = [Response("validate", Bearer(token), 0, Validate(token))
                EXCEPT !.repeat = (resp.view = "validate" /\ resp.cred = token)]
    /\ sessions' = [i \in DOMAIN sessions |->
                      IF i = Validate(token).session
                      THEN [sessions[i] EXCEPT !.updated_at = _now]
                      ELSE sessions[i]]
    /\ UNCHANGED <<users, nextSid, nextVer, now, cfg, issued, reqs,
                   retired, hardRevoked, lastRA>>

\* a direct call of decrypt_and_decode_token(token), as ChatConsumer makes it
validate(token) ==
    /\ Ready \/ resp.view = "validate"
    /\ resp' = [Response("validate", Bearer(token), 0, Validate(token))
                EXCEPT !.repeat = (resp.view = "validate" /\ resp.cred = token)]
    /\ UNCHANGED <<users, sessions, nextSid, nextVer, now, cfg, issued, reqs,
                   retired, hardRevoked, lastRA>>

\* a request to a view guarded by _require_auth / _require_admin
Helpers == {"require_auth", "require_auth_user", "require_auth_helper", "require_admin"}

HelperReply(helper, h) ==
    IF helper = "require_admin" THEN _require_admin(h)
    ELSE IF helper = "require_auth_user" THEN _require_auth(h, {"user"})
    ELSE IF helper = "require_auth_helper" THEN _require_auth(h, {"helper"})
    ELSE _require_auth(h, {"None"})

guarded_view(helper, h) ==
    /\ Ready
    /\ resp' = Response("guarded_view", h, HelperReply(helper, h).status,
                        HelperReply(helper, h).res)
    /\ UNCHANGED <<users, sessions, nextSid, nextVer, now, cfg, issued, reqs,
                   retired, hardRevoked, lastRA>>

(***************************************************************************)
(* Logout: validate, then soft-revoke the session of the credential.       *)
(***************************************************************************)
\* rotate_version calls still to come from logouts in flight
PendingRotations == Cardinality({r \in ReqIds : reqs[r].pc = "logout_revoke"})

\* logout_view up to the call of revoke_session
logout_view(h) ==
    /\ Ready
    /\ IF _get_bearer_token(h).none
       THEN /\ resp' = Response("logout", h, 401, NoToken)
            /\ reqs' = reqs
       ELSE LET res == Validate(_get_bearer_token(h).token) IN
            IF res.error # "None" \/ res.session = None
            THEN /\ resp' = Response("logout", h, 401, res)
                 /\ reqs' = reqs
            ELSE /\ FreeSlots("logout") # {}
                 /\ nextVer + PendingRotations < MaxRotations
                 /\ reqs' = [reqs EXCEPT ![FirstFree("logout")] =
                               [Idle EXCEPT !.pc = "logout_revoke", !.user = res.user,
                                            !.sid = res.session]]
                 /\ resp' = NoResponse
    /\ UNCHANGED <<users, sessions, nextSid, nextVer, now, cfg, issued,
                   retired, hardRevoked, lastRA>>

\* logout_view from revoke_session(session, hard_delete=False) to the response
logout_revoke(r) ==
    /\ Ready
    /\ reqs[r].pc = "logout_revoke"
    /\ LET sid == reqs[r].sid
           done == revoke_session(sessions, sid, FALSE, FreshRotation(nextVer), _now)
       IN IF done.fault
          THEN /\ resp' = Response("logout", NoHeader, 500,
                                   Result(reqs[r].user, sid, "fault:DatabaseError"))
               /\ UNCHANGED <<sessions, nextVer, retired>>
          ELSE /\ sessions' = done.table
               /\ nextVer' = nextVer + 1
               /\ retired' = retired \cup {sessions[i].version_id :
                                              i \in {sid} \cap DOMAIN sessions}
               /\ resp' = Response("logout", NoHeader, 200,
                                   Result(reqs[r].user, sid, "None"))
    /\ reqs' = [reqs EXCEPT ![r] = Idle]
    /\ UNCHANGED <<users, nextSid, now, cfg, issued, hardRevoked, lastRA>>

(***************************************************************************)
(* Change password.                                                        *)
(***************************************************************************)
\* User.set_password(raw_password): hash and save the row
set_password(utbl, user_id, raw) ==
    [utbl EXCEPT ![user_id].password = make_password(raw)]

\* a change of password that also deletes every session of the user
change_password_view_revoking(h, old_password, new_password) ==
    /\ Ready
    /\ IF _get_bearer_token(h).none
       THEN /\ resp' = Response("change_password", h, 401, NoToken)
            /\ UNCHANGED <<users, sessions>>
       ELSE LET res == Validate(_get_bearer_token(h).token) IN
            IF res.error # "None" \/ res.user = None
            THEN /\ resp' = Response("change_password", h, 401, res)
                 /\ UNCHANGED <<users, sessions>>
            ELSE IF ~check_password(users[res.user], old_password)
            THEN /\ resp' = Response("change_password", h, 400, res)
                 /\ UNCHANGED <<users, sessions>>
            ELSE /\ users' = set_password(users, res.user, new_password)
                 /\ sessions' = [i \in {j \in DOMAIN sessions :
                                          sessions[j].user_id # res.user}
                                   |-> sessions[i]]
                 /\ resp' = Response("change_password", h, 200, res)
    /\ UNCHANGED <<nextSid, nextVer, now, cfg, issued, reqs,
                   retired, hardRevoked, lastRA>>

\* change_password_view: POST /auth/change-password/
change_password_view(h, old_password, new_password) ==
    /\ Ready
    /\ IF _get_bearer_token(h).none
       THEN /\ resp' = Response("change_password", h, 401, NoToken)
            /\ users' = users
       ELSE LET res == Validate(_get_bearer_token(h).token) IN
            IF res.error # "None" \/ res.user = None
            THEN /\ resp' = Response("change_password", h, 401, res)
                 /\ users' = users
            ELSE IF ~check_password(users[res.user], old_password)
            THEN /\ resp' = Response("change_password", h, 400, res)
                 /\ users' = users
            ELSE /\ users' = set_password(users, res.user, new_password)
                 /\ resp' = Response("change_password", h, 200, res)
    /\ UNCHANGED <<sessions, nextSid, nextVer, now, cfg, issued, reqs,
                   retired, hardRevoked, lastRA>>

(***************************************************************************)
(* Revoke all sessions: validate, check the password, list the owner's     *)
(* sessions, hard-revoke them one by one.                                  *)
(***************************************************************************)
\* revoke_all_sessions_view up to UserSession.objects.filter(user=user)
\* _json_body(request) is None: the body is no JSON
InvalidJson == "<invalid json>"
\* what the body of a revoke-all request gives for "password": a password,
\* nothing, or no JSON at all
Bodies == Passwords \cup {"", InvalidJson}

revoke_all_sessions_view(h, password) ==
    /\ Ready
    /\ IF _get_bearer_token(h).none
       THEN /\ resp' = Response("revoke_all", h, 401, NoToken)
            /\ reqs' = reqs
       ELSE LET res == Validate(_get_bearer_token(h).token) IN
            IF res.error # "None" \/ res.user = None
            THEN /\ resp' = Response("revoke_all", h, 401, res)
                 /\ reqs' = reqs
            ELSE IF password = InvalidJson \/ password = ""
            THEN /\ resp' = Response("revoke_all", h, 400, res)
                 /\ reqs' = reqs
            ELSE IF ~check_password(users[res.user], password)
            THEN /\ resp' = Response("revoke_all", h, 400, res)
                 /\ reqs' = reqs
            ELSE /\ FreeSlots("revoke_all") # {}
                 /\ reqs' = [reqs EXCEPT ![FirstFree("revoke_all")] =
                               [Idle EXCEPT !.pc = "revoke_all_list", !.user = res.user]]
                 /\ resp' = NoResponse
    /\ UNCHANGED <<users, sessions, nextSid, nextVer, now, cfg, issued,
                   retired, hardRevoked, lastRA>>

\* the response of revoke_all_sessions_view, once the loop has run out
revoke_all_finish(r, listed) ==
    /\ reqs' = [reqs EXCEPT ![r] = Idle]
    /\ resp' = Response("revoke_all", NoHeader, 200, Result(reqs[r].user, None, "None"))
    /\ lastRA' = [lastRA EXCEPT ![reqs[r].user] = [listed |-> listed, done |-> nextSid]]

\* the query of "for s in sessions": the rows of the user at this moment
revoke_all_list(r) ==
    /\ Ready
    /\ reqs[r].pc = "revoke_all_list"
    /\ LET rows == {s \in DOMAIN sessions : sessions[s].user_id = reqs[r].user} IN
       IF rows = {}
       THEN revoke_all_finish(r, nextSid)
       ELSE /\ reqs' = [reqs EXCEPT ![r].pc = "revoke_all_loop", ![r].todo = rows,
                                    ![r].listed = nextSid]
            /\ resp' = NoResponse
            /\ lastRA' = lastRA
    /\ UNCHANGED <<users, sessions, nextSid, nextVer, now, cfg, issued,
                   retired, hardRevoked>>

\* a loop that returns after its first turn
revoke_all_loop_first(r, s) ==
    /\ Ready
    /\ reqs[r].pc = "revoke_all_loop"
    /\ s \in reqs[r].todo
    /\ sessions' = revoke_session(sessions, s, TRUE, None, _now).table
    /\ hardRevoked' = hardRevoked \cup {s}
    /\ revoke_all_finish(r, reqs[r].listed)
    /\ UNCHANGED <<users, nextSid, nextVer, now, cfg, issued, retired>>

\* one turn of the loop: revoke_session(s, hard_delete=True)
revoke_all_loop(r, s) ==
    /\ Ready
    /\ reqs[r].pc = "revoke_all_loop"
    /\ s \in reqs[r].todo
    /\ sessions' = revoke_session(sessions, s, TRUE, None, _now).table
    /\ hardRevoked' = hardRevoked \cup {s}
    /\ IF reqs[r].todo = {s}
       THEN revoke_all_finish(r, reqs[r].listed)
       ELSE /\ reqs' = [reqs EXCEPT ![r].todo = @ \ {s}]
            /\ resp' = NoResponse
            /\ lastRA' = lastRA
    /\ UNCHANGED <<users, nextSid, nextVer, now, cfg, issued, retired>>

(***************************************************************************)
(* The system.                                                             *)
(***************************************************************************)
\* The requests clients make.  SignupTypes are the user_type values sign-up
\* requests carry and NewPasswords the passwords users choose (at sign-up and
\* as new password); any password of Passwords may be typed where one is
\* checked.
Requests(SignupTypes, NewPasswords) ==
    \/ deliver
    \/ Tick
    \/ \E phone \in UserIds, t \in SignupTypes, p \in NewPasswords :
          signup_view(phone, t, p)
    \/ \E phone \in UserIds, p \in Passwords : signin_view(phone, p)
    \/ \E c \in Presentable : validate(c)
    \/ \E helper \in Helpers, h \in Headers : guarded_view(helper, h)
    \/ \E h \in Headers : logout_view(h)
    \/ \E r \in ReqIds : logout_revoke(r)
    \/ \E h \in Headers, old \in Passwords, new \in NewPasswords :
          change_password_view(h, old, new)
    \/ \E h \in Headers, p \in Bodies : revoke_all_sessions_view(h, p)
    \/ \E r \in ReqIds : revoke_all_list(r)
    \/ \E r \in ReqIds, s \in SessionIds : revoke_all_loop(r, s)

\* The session lifecycle: every user signs up as "user" (or is refused as
\* "admin") and keeps one password.
Next == Requests({"user", "admin"}, {"pw1"})

Spec == Init /\ [][Next]_vars

\* The accounts: every user signs up as "helper" (or is refused as "admin"),
\* and users choose and change their passwords.
NextAccounts == Requests({"helper", "admin"}, Passwords)

SpecAccounts == Init /\ [][NextAccounts]_vars

(***************************************************************************)
(* Credentials minted for sessions that exist already.                     *)
(***************************************************************************)
\* create_encrypted_access_token_for_session(session) called on a row read
\* from the table
remint(sid) ==
    /\ Ready
    /\ sid \in DOMAIN sessions
    /\ Cardinality(issued) - nextSid < MaxReissues
    /\ ~create_encrypted_access_token_for_session(sid, sessions[sid], cfg, now).fault
    /\ issued' = issued \cup
          {create_encrypted_access_token_for_session(sid, sessions[sid], cfg, now).token}
    /\ resp' = Response("remint",
                  Bearer(create_encrypted_access_token_for_session(
                             sid, sessions[sid], cfg, now).token),
                  0, Result(sessions[sid].user_id, sid, "None"))
    /\ UNCHANGED <<users, sessions, nextSid, nextVer, now, cfg, reqs,
                   retired, hardRevoked, lastRA>>

NextReissue ==
    \/ Next
    \/ \E sid \in SessionIds : remint(sid)

SpecReissue == Init /\ [][NextReissue]_vars

(***************************************************************************)
(* revoke_session on UserSession objects held in memory, and revoke-all    *)
(* requests that die in the loop.                                          *)
(***************************************************************************)
HeldIds == {"held"} \X (1..MaxHeld)

\* a UserSession object read from the row with that id; Model.delete() sets
\* the pk of the object it deleted to None
Held(sid) == [pc |-> "held", id |-> sid, pk |-> sid]

\* Model.delete(): ValueError (an AssertionError before Django 4.0) on an
\* object whose pk is None, else
\* DELETE ... WHERE id = pk, whatever the number of rows deleted
delete(tbl, obj) ==
    IF obj.pk = None
    THEN [fault |-> "ValueError", table |-> tbl, obj |-> obj]
    ELSE [fault |-> "None", table |-> Delete(tbl, obj.pk),
          obj |-> [obj EXCEPT !.pk = None]]

\* the uuid4() default save() gives an object whose pk is None: the id of no row
UnsavedPk == -3

\* UserSession.rotate_version() on an object: save(update_fields=...) gives an
\* object without pk a fresh one, and raises DatabaseError when the UPDATE
\* matched no row
rotate_object(tbl, obj, fresh, t) ==
    IF obj.pk = None
    THEN [fault |-> "DatabaseError", table |-> tbl,
          obj |-> [obj EXCEPT !.pk = UnsavedPk]]
    ELSE IF rotate_version(tbl, obj.pk, fresh, t).fault
    THEN [fault |-> "DatabaseError", table |-> tbl, obj |-> obj]
    ELSE [fault |-> "None", table |-> rotate_version(tbl, obj.pk, fresh, t).table,
          obj |-> obj]

\* revoke_session(session, hard_delete) on an object
revoke_object(tbl, obj, hard_delete, fresh, t) ==
    IF hard_delete THEN delete(tbl, obj) ELSE rotate_object(tbl, obj, fresh, t)

\* the tables after n sign-ups at clock 0 under a positive lifetime, nothing
\* revoked yet, and no object held
InitRevoke ==
    /\ cfg \in {c \in GoodSettings : c.lifetime = MaxLifetime}
    /\ \E n \in UserIds :
          /\ users = [u \in 1..n |-> [user_type |-> "user",
                                      password |-> make_password("pw1")]]
          /\ sessions = [sid \in 1..n |->
                           [user_id |-> sid, version_id |-> FreshRowVersion(sid),
                            created_at |-> 0, updated_at |-> 0]]
          /\ issued = {FernetEncrypt(ServerKey,
                           JwtEncode(AccessPayload(i, i, FreshRowVersion(i), 0, MaxLifetime),
                                     ServerSecret)) : i \in 1..n}
          /\ nextSid = n
    /\ nextVer = 0
    /\ now = 0
    /\ reqs = [r \in ReqIds \cup HeldIds |-> Idle]
    /\ resp = NoResponse
    /\ retired = {}
    /\ hardRevoked = {}
    /\ lastRA = [u \in UserIds |-> [listed |-> 0, done |-> 0]]

\* UserSession.objects.get(id=sid): an object of the row
get_session(r, sid) ==
    /\ Ready
    /\ r \in HeldIds /\ reqs[r].pc = "idle"
    /\ sid \in DOMAIN sessions
    /\ reqs' = [reqs EXCEPT ![r] = Held(sid)]
    /\ UNCHANGED <<users, sessions, nextSid, nextVer, now, cfg, issued, resp,
                   retired, hardRevoked, lastRA>>

\* the object goes out of scope
release(r) ==
    /\ Ready
    /\ r \in HeldIds /\ reqs[r].pc = "held"
    /\ reqs' = [reqs EXCEPT ![r] = Idle]
    /\ UNCHANGED <<users, sessions, nextSid, nextVer, now, cfg, issued, resp,
                   retired, hardRevoked, lastRA>>

\* revoke_session(session, hard_delete) called on a held object
revoke_held(r, hard_delete) ==
    /\ Ready
    /\ r \in HeldIds /\ reqs[r].pc = "held"
    /\ hard_delete \/ nextVer < MaxRotations
    /\ LET done == revoke_object(sessions, reqs[r], hard_delete,
                                 FreshRotation(nextVer), _now)
       IN /\ sessions' = done.table
          /\ reqs' = [reqs EXCEPT ![r] = done.obj]
          /\ resp' = [Response(IF hard_delete THEN "revoke_hard" ELSE "revoke_soft",
                               NoHeader, 0,
                               Result(None, reqs[r].id,
                                      IF done.fault = "None" THEN "None"
                                      ELSE "fault:" \o done.fault))
                      EXCEPT !.repeat = (reqs[r].id \notin DOMAIN sessions)]
          /\ hardRevoked' = IF hard_delete /\ done.fault = "None"
                            THEN hardRevoked \cup {reqs[r].id} ELSE hardRevoked
          /\ retired' = IF ~hard_delete /\ done.fault = "None"
                        THEN retired \cup {sessions[reqs[r].id].version_id}
                        ELSE retired
          /\ nextVer' = IF ~hard_delete /\ done.fault = "None"
                        THEN nextVer + 1 ELSE nextVer
    /\ UNCHANGED <<users, nextSid, now, cfg, issued, lastRA>>

\* the process serving a revoke-all request dies before the response
crash(r) ==
    /\ Ready
    /\ r \in ReqIds
    /\ reqs[r].pc \in {"revoke_all_list", "revoke_all_loop"}
    /\ reqs' = [reqs EXCEPT ![r] = Idle]
    /\ UNCHANGED <<users, sessions, nextSid, nextVer, now, cfg, issued, resp,
                   retired, hardRevoked, lastRA>>

NextRevoke ==
    \/ deliver
    \/ \E phone \in UserIds, p \in Passwords : signin_view(phone, p)
    \/ \E h \in Headers, p \in Bodies : revoke_all_sessions_view(h, p)
    \/ \E r \in ReqIds : revoke_all_list(r)
    \/ \E r \in ReqIds, s \in SessionIds : revoke_all_loop(r, s)
    \/ \E r \in ReqIds : crash(r)
    \/ \E r \in HeldIds, sid \in SessionIds : get_session(r, sid)
    \/ \E r \in HeldIds : release(r)
    \/ \E r \in HeldIds, hard_delete \in BOOLEAN : revoke_held(r, hard_delete)

SpecRevoke == InitRevoke /\ [][NextRevoke]_vars

(***************************************************************************)
(* Validation as the two reads it makes: the User row, then the            *)
(* UserSession row, with other requests running in between.                *)
(***************************************************************************)
ValidateIds == {"validate"} \X (1..MaxInFlight)

\* the session checks that forget to compare the version
SessionChecks_noversion(payload, user_id, stbl) ==
    IF payload.session_id \notin DOMAIN stbl
    THEN Result(user_id, None, "session_not_found")
    ELSE IF stbl[payload.session_id].user_id # user_id
    THEN Result(user_id, None, "session_user_mismatch")
    ELSE Result(user_id, payload.session_id, "None")

\* the session checks with DoesNotExist swallowed: a missing row passes
SessionChecks_missing_ok(payload, user_id, stbl) ==
    IF payload.session_id \notin DOMAIN stbl
    THEN Result(user_id, None, "None")
    ELSE IF stbl[payload.session_id].user_id # user_id
    THEN Result(user_id, None, "session_user_mismatch")
    ELSE IF payload.session_version_id = None
            \/ stbl[payload.session_id].version_id # payload.session_version_id
    THEN Result(user_id, payload.session_id, "session_version_mismatch")
    ELSE Result(user_id, payload.session_id, "None")

\* decrypt_and_decode_token from UserSession.objects.get on: the row is read
\* once and the checks are made on the object read
SessionChecks(payload, user_id, stbl) ==
    IF payload.session_id \notin DOMAIN stbl
    THEN Result(user_id, None, "session_not_found")
    ELSE IF stbl[payload.session_id].user_id # user_id
    THEN Result(user_id, None, "session_user_mismatch")
    ELSE IF payload.session_version_id = None
            \/ stbl[payload.session_id].version_id # payload.session_version_id
    THEN Result(user_id, payload.session_id, "session_version_mismatch")
    ELSE Result(user_id, payload.session_id, "None")

\* has the pipeline returned before it reads the UserSession row?
ReturnsBeforeSession(res) ==
    res.user = None \/ res.error = "session_id_missing"

InitRace ==
    /\ users = << >>
    /\ sessions = << >>
    /\ nextSid = 0
    /\ nextVer = 0
    /\ now = 0
    /\ cfg \in GoodSettings
    /\ issued = {}
    /\ reqs = [r \in ReqIds \cup ValidateIds |-> Idle]
    /\ resp = NoResponse
    /\ retired = {}
    /\ hardRevoked = {}
    /\ lastRA = [u \in UserIds |-> [listed |-> 0, done |-> 0]]

\* decrypt_and_decode_token(token) up to and with User.objects.get; fresh
\* remembers whether the session was unrevoked at this moment
validate_begin(r, token) ==
    /\ Ready
    /\ r \in ValidateIds /\ reqs[r].pc = "idle"
    /\ IF ReturnsBeforeSession(Validate(token))
       THEN /\ resp' = Response("validate_split", Bearer(token), 0, Validate(token))
            /\ reqs' = reqs
       ELSE /\ reqs' = [reqs EXCEPT ![r] =
                          [pc |-> "validate_session", cred |-> token,
                           user |-> token.plain.payload.user_id,
                           fresh |-> /\ token.plain.payload.session_id \notin hardRevoked
                                     /\ token.plain.payload.session_version_id \notin retired]]
            /\ resp' = NoResponse
    /\ UNCHANGED <<users, sessions, nextSid, nextVer, now, cfg, issued,
                   retired, hardRevoked, lastRA>>

\* decrypt_and_decode_token from UserSession.objects.get to the return
validate_read(r) ==
    /\ Ready
    /\ r \in ValidateIds /\ reqs[r].pc = "validate_session"
    /\ resp' = [Response("validate_split", Bearer(reqs[r].cred), 0,
                         SessionChecks(reqs[r].cred.plain.payload, reqs[r].user, sessions))
                EXCEPT !.repeat = reqs[r].fresh]
    /\ reqs' = [reqs EXCEPT ![r] = Idle]
    /\ UNCHANGED <<users, sessions, nextSid, nextVer, now, cfg, issued,
                   retired, hardRevoked, lastRA>>

NextRace ==
    \/ Next
    \/ \E r \in ValidateIds, c \in Presentable : validate_begin(r, c)
    \/ \E r \in ValidateIds : validate_read(r)

SpecRace == InitRace /\ [][NextRace]_vars

(***************************************************************************)
(* The validation pipeline as a function: decrypt_and_decode_token applied *)
(* to any credential, under either expected_type, against tables the      *)
(* lifecycle leaves behind.                                                *)
(***************************************************************************)
\* claims one can sign: every field present or absent, right or wrong
ForgedPayloads ==
    [user_id : {None} \cup UserIds,
     session_id : {None} \cup SessionIds,
     session_version_id : {None} \cup VersionIds,
     type : {"access", "refresh"},
     iat : {0},
     exp : 0..MaxLifetime]

\* claims whose user_id or session_id is a string that is no UUID
MalformedPayloads ==
    {[p EXCEPT !.user_id = BadUuid] :
        p \in {q \in ForgedPayloads : q.session_version_id = None /\ q.exp = MaxLifetime}}
    \cup {[p EXCEPT !.session_id = BadUuid] :
        p \in {q \in ForgedPayloads : q.session_version_id = None /\ q.exp = MaxLifetime}}

\* Fernet tokens under either key, intact or not, around junk or a JWT signed
\* with either secret
Envelopes ==
    {[FernetEncrypt(e[1], plain) EXCEPT !.intact = e[2]] :
        e \in {<<ServerKey, TRUE>>, <<ServerKey, FALSE>>, <<OtherKey, TRUE>>},
        plain \in {NotJwt} \cup {JwtEncode(p, sec) :
                                   p \in ForgedPayloads,
                                   sec \in {ServerSecret, OtherSecret}}}

\* the strings a client can send: empty, junk, Fernet tokens, the server's
\* own tokens with ignorable characters added, and claims with malformed ids
\* under the server's key and secret
Universe ==
    {EmptyToken, GarbageToken}
    \cup Envelopes
    \cup {Padded(c) : c \in {x \in Envelopes : x.key = ServerKey /\ x.intact}}
    \cup {FernetEncrypt(ServerKey, JwtEncode(p, ServerSecret)) : p \in MalformedPayloads}

\* the users that have signed up, each with the session of the sign-up and
\* the sessions of later sign-ins, in turn
FixtureOwner(n, sid) == ((sid - 1) % n) + 1

\* tables after n sign-ups and MaxSessions - n sign-ins at clock 0, the
\* logouts of the sessions in rotated and a completed revoke-all of each user
\* in gone
FixtureSessions(n, rotated, gone) ==
    [sid \in {i \in SessionIds : FixtureOwner(n, i) \notin gone} |->
        [user_id |-> FixtureOwner(n, sid),
         version_id |-> IF sid \in rotated THEN FreshRotation(sid - 1)
                        ELSE FreshRowVersion(sid),
         created_at |-> 0, updated_at |-> 0]]

\* settings with the encryption key, the signing secret or the algorithm
\* missing, or with a key that is no urlsafe base64 of 32 bytes
BadSettings ==
    {[c EXCEPT !.key = k] : c \in {g \in GoodSettings : g.lifetime = MaxLifetime},
                            k \in {"", "malformed"}}
    \cup {[c EXCEPT !.secret = ""] : c \in {g \in GoodSettings : g.lifetime = MaxLifetime}}
    \cup {[c EXCEPT !.alg = ""] : c \in {g \in GoodSettings : g.lifetime = MaxLifetime}}

\* the process starts under its settings over the tables earlier runs left;
\* under bad settings, over the tables of MaxUsers sign-ups
InitPipeline ==
    /\ cfg \in {c \in GoodSettings : c.lifetime = MaxLifetime} \cup BadSettings
    /\ \E n \in UserIds, gone \in SUBSET UserIds,
          rotated \in SUBSET {i \in SessionIds : i <= MaxRotations} :
          /\ cfg \in BadSettings => (n = MaxUsers /\ gone = {} /\ rotated = {})
          /\ gone \subseteq 1..n
          /\ \A i \in rotated : FixtureOwner(n, i) \notin gone
          /\ users = [u \in 1..n |-> [user_type |-> "user",
                                      password |-> make_password("pw1")]]
          /\ sessions = FixtureSessions(n, rotated, gone)
          /\ retired = {FreshRowVersion(i) : i \in rotated}
          /\ hardRevoked = {i \in SessionIds : FixtureOwner(n, i) \in gone}
          /\ lastRA = [u \in UserIds |->
                         IF u \in gone
                         THEN [listed |-> MaxSessions, done |-> MaxSessions]
                         ELSE [listed |-> 0, done |-> 0]]
          /\ issued = {FernetEncrypt(ServerKey,
                           JwtEncode(AccessPayload(FixtureOwner(n, i), i,
                                                   FreshRowVersion(i), 0, MaxLifetime),
                                     ServerSecret)) : i \in SessionIds}
    /\ nextSid = MaxSessions
    /\ nextVer = MaxRotations
    /\ now = 0
    /\ reqs = [r \in ReqIds |-> Idle]
    /\ resp = NoResponse

\* decrypt_and_decode_token(token, expected_type) called on any string
decode(token, expected_type) ==
    /\ Ready
    /\ resp' = [Response("decode", Bearer(token), 0,
                         decrypt_and_decode_token(token, expected_type,
                                                  users, sessions, cfg, now))
                EXCEPT !.expected = expected_type]
    /\ UNCHANGED <<users, sessions, nextSid, nextVer, now, cfg, issued, reqs,
                   retired, hardRevoked, lastRA>>

ExpectedTypes == {"access", "refresh"}

NextPipeline ==
    \/ deliver
    \/ Tick
    \/ \E c \in Universe, e \in ExpectedTypes : decode(c, e)

SpecPipeline == InitPipeline /\ [][NextPipeline]_vars

\* expected_type is compared only when it "is not None": the call also takes
\* None for it
OptionalTypes == ExpectedTypes \cup {"None"}

NextKind ==
    \/ deliver
    \/ Tick
    \/ \E c \in Universe, e \in OptionalTypes : decode(c, e)

SpecKind == InitPipeline /\ [][NextKind]_vars

\* decrypt_and_get_payload(token) called on any string
get_payload(token) ==
    /\ Ready
    /\ LET got == decrypt_and_get_payload(token, cfg, now) IN
       resp' = [Response("get_payload", Bearer(token), 0,
                         Result(None, None, got.error))
                EXCEPT !.payload = got.payload]
    /\ UNCHANGED <<users, sessions, nextSid, nextVer, now, cfg, issued, reqs,
                   retired, hardRevoked, lastRA>>

NextPayload ==
    \/ deliver
    \/ Tick
    \/ \E c \in Universe : get_payload(c)

SpecPayload == InitPipeline /\ [][NextPayload]_vars

\* settings with JWT_ACCESS_TOKEN_LIFETIME, the signing secret, the algorithm
\* or the encryption key missing or malformed
FaultySettings ==
    BadSettings
    \cup {[c EXCEPT !.lifetime = NoLifetime] : c \in GoodSettings}

\* a process started under any settings over empty tables
InitIssue == InitTables /\ cfg \in GoodSettings \cup FaultySettings

\* the requests that issue credentials
NextIssue ==
    \/ deliver
    \/ Tick
    \/ \E phone \in UserIds, t \in UserTypes, p \in Passwords :
          signup_view(phone, t, p)
    \/ \E phone \in UserIds, p \in Passwords : signin_view(phone, p)

SpecIssue == InitIssue /\ [][NextIssue]_vars

(***************************************************************************)
(* The chat websocket: ChatConsumer over the channel layer.  A connection  *)
(* is a channel; the channel layer keeps, per channel, the group it was    *)
(* added to (joined), and the consumer its attribute group_name.           *)
(***************************************************************************)
MaxChannels == 2
ChannelIds == {"channel"} \X (1..MaxChannels)

\* a websocket that has not sent its handshake: no attribute group_name, in
\* no group, not closed
Unconnected == [pc |-> "idle", user |-> None, group_name |-> None,
                joined |-> None, code |-> 0]

\* the connection ended by an exception raised in connect, not by close(code)
Crashed == -1

\* the tables the lifecycle leaves, under working settings, and websockets
\* yet to connect
InitChat ==
    /\ cfg \in {c \in GoodSettings : c.lifetime = MaxLifetime}
    /\ \E n \in UserIds, gone \in SUBSET UserIds,
          rotated \in SUBSET {i \in SessionIds : i <= MaxRotations} :
          /\ gone \subseteq 1..n
          /\ \A i \in rotated : FixtureOwner(n, i) \notin gone
          /\ users = [u \in 1..n |-> [user_type |-> "user",
                                      password |-> make_password("pw1")]]
          /\ sessions = FixtureSessions(n, rotated, gone)
          /\ retired = {FreshRowVersion(i) : i \in rotated}
          /\ hardRevoked = {i \in SessionIds : FixtureOwner(n, i) \in gone}
          /\ lastRA = [u \in UserIds |->
                         IF u \in gone
                         THEN [listed |-> MaxSessions, done |-> MaxSessions]
                         ELSE [listed |-> 0, done |-> 0]]
          /\ issued = {FernetEncrypt(ServerKey,
                           JwtEncode(AccessPayload(FixtureOwner(n, i), i,
                                                   FreshRowVersion(i), 0, MaxLifetime),
                                     ServerSecret)) : i \in SessionIds}
    /\ nextSid = MaxSessions
    /\ nextVer = MaxRotations
    /\ now = 0
    /\ reqs = [r \in ChannelIds |-> Unconnected]
    /\ resp = NoResponse

\* the tokens websockets come with: what clients present, and tokens under
\* the server's key and secret whose ids are no UUIDs
ChatTokens ==
    Presentable
    \cup {FernetEncrypt(ServerKey, JwtEncode(p, ServerSecret)) : p \in MalformedPayloads}

\* connect that closes only when there is an error and no user
ws_connect_and(ch, token) ==
    /\ Ready
    /\ reqs[ch].pc = "idle"
    /\ IF token.form = "empty"
       THEN /\ reqs' = [reqs EXCEPT ![ch].pc = "closed", ![ch].code = 4001]
            /\ resp' = Response("ws_connect", Bearer(token), 4001, NoToken)
       ELSE LET res == Validate(token) IN
            IF res.error \in {"fault:RuntimeError", "fault:ValidationError"}
            THEN /\ reqs' = [reqs EXCEPT ![ch].pc = "closed", ![ch].code = Crashed]
                 /\ resp' = Response("ws_connect", Bearer(token), Crashed, res)
            ELSE IF res.error # "None" /\ res.user = None
            THEN /\ reqs' = [reqs EXCEPT ![ch].pc = "closed", ![ch].code = 4003]
                 /\ resp' = Response("ws_connect", Bearer(token), 4003, res)
            ELSE /\ reqs' = [reqs EXCEPT ![ch].pc = "authed", ![ch].user = res.user]
                 /\ resp' = Response("ws_auth", Bearer(token), 0, res)
    /\ UNCHANGED <<users, sessions, nextSid, nextVer, now, cfg, issued,
                   retired, hardRevoked, lastRA>>

\* ChatConsumer.connect up to the return of _auth_from_token: the token of
\* the query string (none, or blank, is the empty token)
ws_connect(ch, token) ==
    /\ Ready
    /\ reqs[ch].pc = "idle"
    /\ IF token.form = "empty"
       THEN /\ reqs' = [reqs EXCEPT ![ch].pc = "closed", ![ch].code = 4001]
            /\ resp' = Response("ws_connect", Bearer(token), 4001, NoToken)
       ELSE LET res == Validate(token) IN
            IF res.error \in {"fault:RuntimeError", "fault:ValidationError"}
            THEN /\ reqs' = [reqs EXCEPT ![ch].pc = "closed", ![ch].code = Crashed]
                 /\ resp' = Response("ws_connect", Bearer(token), Crashed, res)
            ELSE IF res.error # "None" \/ res.user = None
            THEN /\ reqs' = [reqs EXCEPT ![ch].pc = "closed", ![ch].code = 4003]
                 /\ resp' = Response("ws_connect", Bearer(token), 4003, res)
            ELSE /\ reqs' = [reqs EXCEPT ![ch].pc = "authed", ![ch].user = res.user]
                 /\ resp' = Response("ws_auth", Bearer(token), 0, res)
    /\ UNCHANGED <<users, sessions, nextSid, nextVer, now, cfg, issued,
                   retired, hardRevoked, lastRA>>

\* ChatConsumer.connect from self.user = user on: group_add and accept
ws_join(ch) ==
    /\ Ready
    /\ reqs[ch].pc = "authed"
    /\ reqs' = [reqs EXCEPT ![ch].pc = "open",
                            ![ch].group_name = reqs[ch].user,
                            ![ch].joined = reqs[ch].user]
    /\ resp' = Response("ws_accept", NoHeader, 101,
                        Result(reqs[ch].user, None, "None"))
    /\ UNCHANGED <<users, sessions, nextSid, nextVer, now, cfg, issued,
                   retired, hardRevoked, lastRA>>

\* ChatConsumer.disconnect: group_discard if the attribute group_name is set
ws_disconnect(ch) ==
    /\ Ready
    /\ reqs[ch].pc \in {"open", "closed"}
    /\ reqs' = [reqs EXCEPT ![ch].pc = "gone",
                            ![ch].joined = IF reqs[ch].group_name # None
                                           THEN None ELSE reqs[ch].joined]
    /\ resp' = Response("ws_disconnect", NoHeader, 0, NoResult)
    /\ UNCHANGED <<users, sessions, nextSid, nextVer, now, cfg, issued,
                   retired, hardRevoked, lastRA>>

NextChat ==
    \/ deliver
    \/ Tick
    \/ \E ch \in ChannelIds, c \in ChatTokens : ws_connect(ch, c)
    \/ \E ch \in ChannelIds : ws_join(ch)
    \/ \E ch \in ChannelIds : ws_disconnect(ch)

SpecChat == InitChat /\ [][NextChat]_vars

(***************************************************************************)
(* Chat messages: create, edit, soft-delete, mark seen.  Each view loads   *)
(* the Message with objects.get and writes it back with                    *)
(* save(update_fields=...), two statements with no transaction and no row  *)
(* lock between them: requests served at the same time interleave there.   *)
(***************************************************************************)
MaxMessages == 1
MaxHandlers == 2
MessageIds == {"message"} \X (1..MaxMessages)
HandlerIds == {"handler"} \X (1..MaxHandlers)

\* NULL in a DateTimeField
NoTime == -1

\* no row of this id in the table of Message
NoMessage == [exists |-> FALSE, from_user |-> None, to_user |-> None,
              content |-> "", is_seen |-> FALSE, time_sent |-> NoTime,
              time_seen |-> NoTime, is_deleted |-> FALSE, deleted_at |-> NoTime]

\* a worker that holds no loaded Message
NoInstance == [pc |-> "idle", header |-> NoHeader, res |-> NoResult,
               message |-> None, content |-> ""]

\* a JSON body without "content"
NoContent == "<no content>"
\* what the body of a create or edit request gives for "content"
ChatBodies == {"hello", "bye", NoContent, InvalidJson}

\* timedelta(minutes=15), in ticks of the clock
EditWindow == 15 * 60 * TicksPerSecond

\* the tables after n sign-ups and MaxSessions - n sign-ins at clock 0, under
\* working settings; no message sent yet, no request in flight
InitMessages ==
    /\ cfg \in {c \in GoodSettings : c.lifetime = MaxLifetime}
    /\ \E n \in UserIds :
          /\ users = [u \in 1..n |-> [user_type |-> "user",
                                      password |-> make_password("pw1")]]
          /\ sessions = FixtureSessions(n, {}, {})
          /\ issued = {FernetEncrypt(ServerKey,
                           JwtEncode(AccessPayload(FixtureOwner(n, i), i,
                                                   FreshRowVersion(i), 0, MaxLifetime),
                                     ServerSecret)) : i \in SessionIds}
    /\ retired = {}
    /\ hardRevoked = {}
    /\ lastRA = [u \in UserIds |-> [listed |-> 0, done |-> 0]]
    /\ nextSid = MaxSessions
    /\ nextVer = MaxRotations
    /\ now = 0
    /\ reqs = [k \in MessageIds \cup HandlerIds |->
                 IF k \in MessageIds THEN NoMessage ELSE NoInstance]
    /\ resp = NoResponse

\* Message.objects.get(id=message_id)
GetMessage(message_id) == reqs[<<"message", message_id>>]

\* create_message_view with a JSON body: the row gets the next id of the
\* BigAutoField
create_message_view(h, to_user_id, body) ==
    /\ Ready
    /\ LET auth == _require_auth(h, {"None"})
           free == {m \in MessageIds : ~reqs[m].exists}
       IN  IF auth.status # 200
           THEN /\ resp' = Response("create_message", h, auth.status, auth.res)
                /\ reqs' = reqs
           ELSE IF body = InvalidJson \/ to_user_id = None
           THEN /\ resp' = Response("create_message", h, 400, auth.res)
                /\ reqs' = reqs
           ELSE IF to_user_id \notin DOMAIN users
           THEN /\ resp' = Response("create_message", h, 404, auth.res)
                /\ reqs' = reqs
           ELSE /\ free # {}
                /\ LET m == CHOOSE f \in free : \A g \in free : f[2] <= g[2] IN
                   reqs' = [reqs EXCEPT ![m] =
                              [exists |-> TRUE, from_user |-> auth.user,
                               to_user |-> to_user_id,
                               content |-> IF body = NoContent THEN "" ELSE body,
                               is_seen |-> FALSE, time_sent |-> now,
                               time_seen |-> NoTime, is_deleted |-> FALSE,
                               deleted_at |-> NoTime]]
                /\ resp' = Response("create_message", h, 201, auth.res)
    /\ UNCHANGED <<users, sessions, nextSid, nextVer, now, cfg, issued,
                   retired, hardRevoked, lastRA>>

\* edit_message_view up to message.content = new_content: the worker w holds
\* the instance it loaded, with the new content
edit_message_view(w, h, message_id, body) ==
    /\ Ready
    /\ reqs[w].pc = "idle"
    /\ LET auth == _require_auth(h, {"None"})
           message == GetMessage(message_id)
       IN  IF auth.status # 200
           THEN /\ resp' = Response("edit_message", h, auth.status, auth.res)
                /\ reqs' = reqs
           ELSE IF ~message.exists
           THEN /\ resp' = Response("edit_message", h, 404, auth.res)
                /\ reqs' = reqs
           ELSE IF message.from_user # auth.user
           THEN /\ resp' = Response("edit_message", h, 403, auth.res)
                /\ reqs' = reqs
           ELSE IF message.is_seen \/ now - message.time_sent > EditWindow
           THEN /\ resp' = Response("edit_message", h, 400, auth.res)
                /\ reqs' = reqs
           ELSE IF body = InvalidJson \/ body = NoContent
           THEN /\ resp' = Response("edit_message", h, 400, auth.res)
                /\ reqs' = reqs
           ELSE /\ reqs' = [reqs EXCEPT ![w] =
                              [pc |-> "edit", header |-> h, res |-> auth.res,
                               message |-> message_id, content |-> body]]
                /\ resp' = NoResponse
    /\ UNCHANGED <<users, sessions, nextSid, nextVer, now, cfg, issued,
                   retired, hardRevoked, lastRA>>

\* edit_message_view from message.save(update_fields=["content"]) on
edit_message_save(w) ==
    /\ Ready
    /\ reqs[w].pc = "edit"
    /\ reqs' = [reqs EXCEPT ![<<"message", reqs[w].message>>].content = reqs[w].content,
                            ![w] = NoInstance]
    /\ resp' = Response("edit_message", reqs[w].header, 200, reqs[w].res)
    /\ UNCHANGED <<users, sessions, nextSid, nextVer, now, cfg, issued,
                   retired, hardRevoked, lastRA>>

\* delete_message_view up to the test of soft_delete on the instance it
\* loaded: an instance that is deleted already is not saved
delete_message_view(w, h, message_id) ==
    /\ Ready
    /\ reqs[w].pc = "idle"
    /\ LET auth == _require_auth(h, {"None"})
           message == GetMessage(message_id)
       IN  IF auth.status # 200
           THEN /\ resp' = Response("delete_message", h, auth.status, auth.res)
                /\ reqs' = reqs
           ELSE IF ~message.exists
           THEN /\ resp' = Response("delete_message", h, 404, auth.res)
                /\ reqs' = reqs
           ELSE IF message.from_user # auth.user
           THEN /\ resp' = Response("delete_message", h, 403, auth.res)
                /\ reqs' = reqs
           ELSE IF message.is_seen
           THEN /\ resp' = Response("delete_message", h, 400, auth.res)
                /\ reqs' = reqs
           ELSE IF message.is_deleted
           THEN /\ resp' = Response("delete_message", h, 200, auth.res)
                /\ reqs' = reqs
           ELSE /\ reqs' = [reqs EXCEPT ![w] =
                              [pc |-> "delete", header |-> h, res |-> auth.res,
                               message |-> message_id, content |-> ""]]
                /\ resp' = NoResponse
    /\ UNCHANGED <<users, sessions, nextSid, nextVer, now, cfg, issued,
                   retired, hardRevoked, lastRA>>

\* Message.soft_delete from self.is_deleted = True on, and the answer of
\* delete_message_view
soft_delete(w) ==
    /\ Ready
    /\ reqs[w].pc = "delete"
    /\ reqs' = [reqs EXCEPT ![<<"message", reqs[w].message>>].is_deleted = TRUE,
                            ![<<"message", reqs[w].message>>].deleted_at = now,
                            ![w] = NoInstance]
    /\ resp' = Response("delete_message", reqs[w].header, 200, reqs[w].res)
    /\ UNCHANGED <<users, sessions, nextSid, nextVer, now, cfg, issued,
                   retired, hardRevoked, lastRA>>

\* mark_seen_view up to the test of mark_seen on the instance it loaded: an
\* instance that is seen already is not saved
mark_seen_view(w, h, message_id) ==
    /\ Ready
    /\ reqs[w].pc = "idle"
    /\ LET auth == _require_auth(h, {"None"})
           message == GetMessage(message_id)
       IN  IF auth.status # 200
           THEN /\ resp' = Response("mark_seen", h, auth.status, auth.res)
                /\ reqs' = reqs
           ELSE IF ~message.exists
           THEN /\ resp' = Response("mark_seen", h, 404, auth.res)
                /\ reqs' = reqs
           ELSE IF message.to_user # auth.user
           THEN /\ resp' = Response("mark_seen", h, 403, auth.res)
                /\ reqs' = reqs
           ELSE IF message.is_seen
           THEN /\ resp' = Response("mark_seen", h, 200, auth.res)
                /\ reqs' = reqs
           ELSE /\ reqs' = [reqs EXCEPT ![w] =
                              [pc |-> "seen", header |-> h, res |-> auth.res,
                               message |-> message_id, content |-> ""]]
                /\ resp' = NoResponse
    /\ UNCHANGED <<users, sessions, nextSid, nextVer, now, cfg, issued,
                   retired, hardRevoked, lastRA>>

\* Message.mark_seen from self.is_seen = True on, and the answer of
\* mark_seen_view
mark_seen(w) ==
    /\ Ready
    /\ reqs[w].pc = "seen"
    /\ reqs' = [reqs EXCEPT ![<<"message", reqs[w].message>>].is_seen = TRUE,
                            ![<<"message", reqs[w].message>>].time_seen = now,
                            ![w] = NoInstance]
    /\ resp' = Response("mark_seen", reqs[w].header, 200, reqs[w].res)
    /\ UNCHANGED <<users, sessions, nextSid, nextVer, now, cfg, issued,
                   retired, hardRevoked, lastRA>>

NextMessages ==
    \/ deliver
    \/ Tick
    \/ \E h \in Headers, to \in UserIds \cup {None}, b \in ChatBodies :
          create_message_view(h, to, b)
    \/ \E w \in HandlerIds, h \in Headers, id \in 1..MaxMessages, b \in ChatBodies :
          edit_message_view(w, h, id, b)
    \/ \E w \in HandlerIds : edit_message_save(w)
    \/ \E w \in HandlerIds, h \in Headers, id \in 1..MaxMessages :
          delete_message_view(w, h, id)
    \/ \E w \in HandlerIds : soft_delete(w)
    \/ \E w \in HandlerIds, h \in Headers, id \in 1..MaxMessages :
          mark_seen_view(w, h, id)
    \/ \E w \in HandlerIds : mark_seen(w)

SpecMessages == InitMessages /\ [][NextMessages]_vars

(***************************************************************************)
(* Properties.                                                             *)
(***************************************************************************)
Claims(c) == c.plain.payload
\* the clock has reached the "exp" of the credential
Expired(c) == Claims(c).exp * TicksPerSecond <= now
Unexpired(c) == now < Claims(c).exp * TicksPerSecond
\* the (user, session, error) a response carries
Returned(r) == Result(r.user, r.session, r.error)

\* C1: a credential create_session issued, whose session has not been revoked
\* since (neither hard, nor soft at the version it was minted with), under a
\* positive lifetime and before its expires_at, validates to (its user, its
\* session, no error).
C1_IssueThenValidate ==
    \A c \in issued :
        (/\ Claims(c).session_id \notin hardRevoked
         /\ Claims(c).session_version_id \notin retired
         /\ cfg.lifetime > 0
         /\ Unexpired(c))
        => /\ Claims(c).user_id \in DOMAIN users
           /\ Validate(c) = Result(Claims(c).user_id, Claims(c).session_id, "None")

\* sign-in answered with a credential, and validating it succeeded
C1_Witness ==
    /\ resp.view = "validate" /\ resp.cred \in issued
    /\ cfg.lifetime > 0 /\ Unexpired(resp.cred)
    /\ Claims(resp.cred).session_id \notin hardRevoked
    /\ Claims(resp.cred).session_version_id \notin retired
    /\ Returned(resp) = Result(Claims(resp.cred).user_id, Claims(resp.cred).session_id, "None")

\* C2: once a soft revoke has replaced the version_id a credential was minted
\* with, validating the unexpired credential returns session_version_mismatch
\* (with user and session), as long as the session was not hard-revoked.
C2_SoftRevokeMismatch ==
    \A c \in issued :
        (/\ Claims(c).session_version_id \in retired
         /\ Claims(c).session_id \notin hardRevoked
         /\ Unexpired(c))
        => Validate(c) = Result(Claims(c).user_id, Claims(c).session_id,
                                "session_version_mismatch")

\* a logged-out credential was validated and answered with the mismatch
C2_Witness ==
    /\ resp.view = "validate" /\ resp.cred \in issued
    /\ Claims(resp.cred).session_version_id \in retired
    /\ Claims(resp.cred).session_id \notin hardRevoked
    /\ Unexpired(resp.cred)
    /\ resp.error = "session_version_mismatch"

\* C3: once a hard revoke of a session has completed, validating an unexpired
\* credential issued for it returns (user, no session, session_not_found).
C3_HardRevokeNotFound ==
    \A c \in issued :
        (Claims(c).session_id \in hardRevoked /\ Unexpired(c))
        => Validate(c) = Result(Claims(c).user_id, None, "session_not_found")

\* a credential of a hard-revoked session was validated
C3_Witness ==
    /\ resp.view = "validate" /\ resp.cred \in issued
    /\ Claims(resp.cred).session_id \in hardRevoked
    /\ Unexpired(resp.cred)
    /\ Returned(resp) = Result(Claims(resp.cred).user_id, None, "session_not_found")

\* the sessions of user u inserted while the last completed revoke-all of u
\* was between its list query and its response
SignedInDuring(u) ==
    {Claims(c).session_id : c \in {d \in issued :
        /\ Claims(d).user_id = u
        /\ lastRA[u].listed < Claims(d).session_id
        /\ Claims(d).session_id <= lastRA[u].done}}

\* C4: after a revoke-all of an owner has completed with no sign-in of that
\* owner during it, every unexpired credential issued before its completion to
\* a session of the owner validates to session_not_found.
C4_RevokeAllNotFound ==
    \A u \in UserIds :
        (lastRA[u].done > 0 /\ SignedInDuring(u) = {})
        => \A c \in issued :
              (/\ Claims(c).user_id = u
               /\ Claims(c).session_id <= lastRA[u].done
               /\ Unexpired(c))
              => Validate(c) = Result(u, None, "session_not_found")

\* a revoke-all deleted two sessions of one owner and a credential of the
\* owner was validated afterwards
C4_Witness ==
    /\ resp.view = "validate" /\ resp.cred \in issued
    /\ lastRA[Claims(resp.cred).user_id].done > 0
    /\ SignedInDuring(Claims(resp.cred).user_id) = {}
    /\ Cardinality({c \in issued : Claims(c).user_id = Claims(resp.cred).user_id
                                   /\ Claims(c).session_id \in hardRevoked}) = 2
    /\ Unexpired(resp.cred)
    /\ resp.error = "session_not_found"

\* every row but that of session s1 is the same before and after the step,
\* and so is the outcome of validating any credential of another session
OthersUntouched(s1) ==
    /\ \A s2 \in DOMAIN sessions \ {s1} :
          s2 \in DOMAIN sessions' /\ sessions'[s2] = sessions[s2]
    /\ \A c \in issued :
          (Claims(c).session_id # s1 /\ Validate(c).error = "None")
          => Validate(c)' = Validate(c)

\* C5: a step that revokes session s1 (the soft revoke of logout, a hard
\* revoke of the revoke-all loop) changes no other session's row, and every
\* credential of another session that validated before still validates;
\* logout revokes the session of the credential it was presented with.
C5_RevokeTouchesOneSession ==
    [][/\ sessions' # sessions
          => \A r \in ReqIds :
                /\ logout_revoke(r) => OthersUntouched(reqs[r].sid)
                /\ \A s \in SessionIds : revoke_all_loop(r, s) => OthersUntouched(s)
       /\ reqs' # reqs
          => \A h \in Headers :
                logout_view(h)
                => \E r \in ReqIds :
                      /\ reqs'[r] # reqs[r]
                      /\ reqs'[r].pc = "logout_revoke"
                      /\ reqs'[r].sid = Claims(h.token).session_id]_vars

\* a logout succeeded while another session exists whose credential validates
C5_Witness ==
    /\ resp.view = "logout" /\ resp.status = 200
    /\ \E c \in issued :
          /\ Claims(c).session_id # resp.session
          /\ Claims(c).user_id = resp.user
          /\ Validate(c) = Result(Claims(c).user_id, Claims(c).session_id, "None")

\* the error codes decrypt_and_decode_token returns
AuthErrors == {"invalid_encrypted", "token_expired", "invalid_token", "invalid_type",
               "user_id_missing", "user_not_found", "session_id_missing",
               "session_not_found", "session_user_mismatch", "session_version_mismatch"}

\* the stages of the pipeline, numbered in the order the specification lists
\* them; StageFails(k, c, e) says that check k, taken by itself, rejects
\* credential c under expected type e in the current tables at the current clock
Stages == 1..10
StageFails(k, c, e) ==
    CASE k = 1 -> c.form = "empty"
      [] k = 2 -> ~(c.form \in FernetForms /\ c.key = cfg.key /\ c.intact)
      [] k = 3 -> c.plain.secret # cfg.secret \/ Expired(c)
      [] k = 4 -> Claims(c).type # e
      [] k = 5 -> Claims(c).user_id = None
      [] k = 6 -> Claims(c).user_id \notin DOMAIN users
      [] k = 7 -> Claims(c).session_id = None
      [] k = 8 -> Claims(c).session_id \notin DOMAIN sessions
      [] k = 9 -> /\ Claims(c).session_id \in DOMAIN sessions
                  /\ sessions[Claims(c).session_id].user_id # Claims(c).user_id
      [] k = 10 -> /\ Claims(c).session_id \in DOMAIN sessions
                   /\ sessions[Claims(c).session_id].version_id
                         # Claims(c).session_version_id
\* the error code the code gives the failure of stage k
StageCode(k, c) ==
    CASE k \in {1, 2} -> "invalid_encrypted"
      [] k = 3 -> IF c.plain.secret # cfg.secret THEN "invalid_token" ELSE "token_expired"
      [] k = 4 -> "invalid_type"
      [] k = 5 -> "user_id_missing"
      [] k = 6 -> "user_not_found"
      [] k = 7 -> "session_id_missing"
      [] k = 8 -> "session_not_found"
      [] k = 9 -> "session_user_mismatch"
      [] k = 10 -> "session_version_mismatch"
Failing(c, e) == {k \in Stages : StageFails(k, c, e)}
Earliest(S) == CHOOSE k \in S : \A j \in S : k <= j

\* C6: whatever the credential, the expected type, the tables and the clock,
\* decrypt_and_decode_token returns the error code of the earliest stage, in
\* the order presence, envelope, signature/expiry, kind, owner-id presence,
\* owner lookup, session-id presence, session lookup, ownership, version, whose
\* check fails, and no error when none fails.
C6_EarliestFailingStage ==
    (resp.view = "decode" /\ resp.error \in AuthErrors \cup {"None"})
    => resp.error = IF Failing(resp.cred, resp.expected) = {} THEN "None"
                    ELSE StageCode(Earliest(Failing(resp.cred, resp.expected)),
                                   resp.cred)
\* several stages fail at once: wrong kind and owner missing and session gone,
\* on a credential that decrypts and verifies
C6_Witness ==
    /\ resp.view = "decode"
    /\ {4, 6, 8} \subseteq Failing(resp.cred, resp.expected)
    /\ Failing(resp.cred, resp.expected) \cap {1, 2, 3} = {}
    /\ resp.error = "invalid_type"

\* C7: a step that is a decrypt_and_decode_token call, made directly or by
\* a view that does nothing else to the tables in that step, changes no User
\* row and no UserSession row, whatever the call returns.
C7_ValidateReadOnly ==
    [][(users' # users \/ sessions' # sessions \/ nextSid' # nextSid \/ nextVer' # nextVer)
       => /\ \A c \in Presentable : ~validate(c)
          /\ \A h \in Headers :
                /\ ~logout_view(h)
                /\ \A p \in Passwords : ~revoke_all_sessions_view(h, p)
                /\ \A helper \in Helpers : ~guarded_view(helper, h)]_vars

\* a validation that found the session (and refused the version) left it alone
C7_Witness ==
    /\ resp.view = "validate"
    /\ resp.error = "session_version_mismatch"
    /\ resp.session \in DOMAIN sessions
    /\ sessions[resp.session].updated_at < now

\* C8: the outcome of validating a credential changes neither by validating
\* it nor by any step that leaves the tables alone and the clock on the same
\* side of its expires_at; validated again at once, it returns the same.
C8_ValidateTwice ==
    [][\A c \in Presentable :
          /\ (\/ validate(c)
              \/ /\ users' = users /\ sessions' = sessions
                 /\ (c \in issued => (Expired(c)' <=> Expired(c))))
             => Validate(c)' = Validate(c)
          /\ (validate(c) /\ resp.view = "validate" /\ resp.cred = c)
             => Returned(resp') = Returned(resp)]_vars

\* an issued credential was validated twice in a row, successfully
C8_Witness ==
    /\ resp.view = "validate" /\ resp.repeat
    /\ resp.cred \in issued
    /\ resp.error = "None"

\* C9: a credential minted at iat under lifetime L carries exp = iat + L, and
\* validating it returns token_expired exactly when the clock is at or past
\* exp, whatever has happened to its user and session rows.
C9_ExpiredIffPastExp ==
    \A c \in issued :
        /\ Claims(c).exp = Claims(c).iat + cfg.lifetime
        /\ (Validate(c).error = "token_expired") <=> (now >= Claims(c).exp * TicksPerSecond)

\* under a positive lifetime, a credential whose session is gone was validated
\* in the very second it expires in
C9_Witness ==
    /\ resp.view = "validate" /\ resp.cred \in issued
    /\ cfg.lifetime > 0
    /\ now = Claims(resp.cred).exp * TicksPerSecond
    /\ Claims(resp.cred).session_id \notin DOMAIN sessions
    /\ resp.error = "token_expired"

\* the session of the credential was revoked, or the credential has expired
Invalidated(c) ==
    \/ Claims(c).session_id \in hardRevoked
    \/ Claims(c).session_version_id \in retired
    \/ Expired(c)

\* C10: every auth helper answers 401 when decrypt_and_decode_token returns
\* an error code, also with a user or a session in the result, and so does
\* every customauth view; hence a request bearing a credential that is
\* revoked or expired is answered 401.
C10_ErrorMeans401 ==
    /\ \A helper \in Helpers, h \in Headers :
          /\ HelperReply(helper, h).res.error # "None"
             => HelperReply(helper, h).status = 401
          /\ (h.token \in issued /\ Invalidated(h.token))
             => HelperReply(helper, h).status = 401
    /\ resp.view \in {"guarded_view", "logout", "change_password", "revoke_all"}
       => /\ resp.error \in AuthErrors => resp.status = 401
          /\ (resp.cred \in issued /\ Invalidated(resp.cred)) => resp.status = 401

\* a guarded view refused a logged-out credential although its user and
\* session were returned
C10_Witness ==
    /\ resp.view = "guarded_view" /\ resp.status = 401
    /\ resp.cred \in issued
    /\ Claims(resp.cred).session_version_id \in retired
    /\ resp.error = "session_version_mismatch"
    /\ resp.user # None /\ resp.session # None

\* the strings obtained by altering an issued credential: the same token with
\* bytes changed or with characters added, and junk
Altered ==
    {x \in Universe \ issued :
        x.form \in FernetForms /\ \E c \in issued : x.plain = c.plain /\ x.key = c.key}
    \cup {GarbageToken}

\* C11: validating a string obtained by altering an issued credential returns
\* invalid_encrypted, invalid_token or token_expired, never success.
C11_AlteredNeverValidates ==
    (resp.view = "decode" /\ resp.cred \in Altered /\ cfg \in GoodSettings)
    => resp.error \in {"invalid_encrypted", "invalid_token", "token_expired"}

\* C12: with the settings present, decrypt_and_decode_token returns for every
\* credential string a triple whose error is None or one of the error codes;
\* it never raises.
C12_NeverRaises ==
    (resp.view = "decode" /\ cfg \in GoodSettings)
    => resp.error \in AuthErrors \cup {"None"}

\* C13: under settings whose encryption key or signing secret is missing or
\* malformed, validating a non-empty credential raises; no error code, and no
\* success, is returned for it.
C13_MisconfigurationRaises ==
    (/\ resp.view = "decode"
     /\ cfg.key \in {"", "malformed"} \/ cfg.secret = ""
     /\ resp.cred # EmptyToken)
    => resp.error \notin AuthErrors \cup {"None"}

\* C14: validating the empty credential returns (None, None, code) with a
\* code of its own, which is not the code returned for a non-empty credential
\* that fails to decrypt.
C14_MissingCredentialCode ==
    (resp.view = "decode" /\ resp.cred = EmptyToken /\ cfg \in GoodSettings)
    => /\ resp.user = None /\ resp.session = None
       /\ resp.error \in AuthErrors
       /\ \A c \in Universe :
             (c # EmptyToken /\ ~FernetDecrypt(cfg.key, c).ok)
             => decrypt_and_decode_token(c, resp.expected, users, sessions,
                                         cfg, now).error # resp.error

\* C15: when the session named by the claims exists and belongs to another
\* user than the one named by the claims, validation returns that user, that
\* session and session_user_mismatch.
C15_OwnerMismatchPartial ==
    (/\ resp.view = "decode" /\ resp.error \in AuthErrors \cup {"None"}
     /\ Failing(resp.cred, resp.expected) # {}
     /\ Earliest(Failing(resp.cred, resp.expected)) = 9)
    => Returned(resp) = Result(Claims(resp.cred).user_id,
                               Claims(resp.cred).session_id,
                               "session_user_mismatch")

\* C16: the user and session returned go with the error: the codes of the
\* stages up to the user lookup come with neither, session_id_missing and
\* session_not_found with the user alone, session_version_mismatch with the
\* user and the session, and no error only with both.
C16_PartialResultByStage ==
    resp.view = "decode"
    => /\ resp.error \in {"invalid_encrypted", "token_expired", "invalid_token",
                          "invalid_type", "user_id_missing", "user_not_found"}
          => (resp.user = None /\ resp.session = None)
       /\ resp.error \in {"session_id_missing", "session_not_found"}
          => /\ resp.user = Claims(resp.cred).user_id /\ resp.user \in DOMAIN users
             /\ resp.session = None
       /\ resp.error = "session_version_mismatch"
          => /\ resp.user = Claims(resp.cred).user_id /\ resp.user \in DOMAIN users
             /\ resp.session = Claims(resp.cred).session_id
             /\ resp.session \in DOMAIN sessions
       /\ resp.error = "None" => (resp.user # None /\ resp.session # None)
\* a credential of a deleted session was validated: its user came back alone
C16_Witness ==
    /\ resp.view = "decode"
    /\ resp.error = "session_not_found"
    /\ resp.user \in DOMAIN users /\ resp.session = None
    /\ Claims(resp.cred).session_id \in hardRevoked

\* the version ids rotate_version draws
RotationIds == {FreshRotation(k) : k \in 0..(MaxRotations - 1)}

\* C17: a credential minted for an existing session validates at once, and one
\* minted after the session's rotation, hence carrying a version
\* rotate_version drew, validates to (user, session, no error) while
\* that version is current and the clock is before its expires_at; a
\* credential carrying a version the rotation replaced keeps getting
\* session_version_mismatch while the row exists.
C17_ReissueAfterSoftRevoke ==
    /\ (resp.view = "remint" /\ Unexpired(resp.cred))
       => Validate(resp.cred) = Result(Claims(resp.cred).user_id,
                                       Claims(resp.cred).session_id, "None")
    /\ \A c \in issued :
        /\ (/\ Claims(c).session_version_id \in RotationIds \ retired
            /\ Claims(c).session_id \notin hardRevoked
            /\ Unexpired(c))
           => Validate(c) = Result(Claims(c).user_id, Claims(c).session_id, "None")
        /\ (/\ Claims(c).session_version_id \in retired
            /\ Claims(c).session_id \in DOMAIN sessions
            /\ Unexpired(c))
           => Validate(c) = Result(Claims(c).user_id, Claims(c).session_id,
                                   "session_version_mismatch")
\* the credential minted after the logout was validated with success while
\* the one from before the logout is still refused
C17_Witness ==
    /\ resp.view = "validate" /\ resp.error = "None"
    /\ Claims(resp.cred).session_version_id \in RotationIds
    /\ \E old \in issued :
          /\ Claims(old).session_id = Claims(resp.cred).session_id
          /\ Claims(old).session_version_id \in retired
          /\ Validate(old).error = "session_version_mismatch"

\* C18: revoke_session(S, hard_delete=True) on an object of a session that
\* was hard-deleted already, be it the object the first call deleted or
\* another object of the row, does not fault and leaves the tables unchanged.
C18_SecondHardRevoke ==
    [][\A r \in HeldIds :
          (/\ revoke_held(r, TRUE)
           /\ reqs[r].id \in hardRevoked
           /\ reqs[r].id \notin DOMAIN sessions)
          => (resp'.error = "None" /\ sessions' = sessions /\ users' = users)]_vars

\* C19: a revoke-all that answers 200, also after an earlier one died in its
\* loop, leaves none of the sessions of the user it listed; no revoke-all
\* faults; and the retry of a per-session revoke that succeeded, hard on a
\* session hard-revoked already or soft on a session rotated already, does
\* not fault.
C19_RevokeRetryHarmless ==
    [][/\ (resp'.view = "revoke_all" /\ resp' # resp)
          => /\ resp'.status \in {200, 400, 401}
             /\ resp'.status = 200
                => \A s \in DOMAIN sessions' :
                      sessions'[s].user_id = resp'.user
                      => s > lastRA'[resp'.user].listed
       /\ \A r \in HeldIds :
             /\ (revoke_held(r, TRUE) /\ reqs[r].id \in hardRevoked)
                => resp'.error = "None"
             /\ (/\ revoke_held(r, FALSE)
                 /\ reqs[r].id \in DOMAIN sessions
                 /\ sessions[reqs[r].id].version_id \in RotationIds)
                => resp'.error = "None"]_vars

\* C20: a validation running beside revocations is decided by its one read of
\* the UserSession row: made after a hard revoke of the session committed it
\* returns session_not_found, after a soft revoke that replaced the
\* credential's version session_version_mismatch, and before any of them
\* success; it returns nothing else.
C20_RaceDecidedByRead ==
    [][\A r \in ValidateIds :
          validate_read(r)
          => /\ Claims(reqs[r].cred).session_id \in hardRevoked
                => Returned(resp') = Result(reqs[r].user, None, "session_not_found")
             /\ (/\ Claims(reqs[r].cred).session_id \notin hardRevoked
                 /\ Claims(reqs[r].cred).session_version_id \in retired)
                => Returned(resp') = Result(reqs[r].user,
                                            Claims(reqs[r].cred).session_id,
                                            "session_version_mismatch")
             /\ (/\ Claims(reqs[r].cred).session_id \notin hardRevoked
                 /\ Claims(reqs[r].cred).session_version_id \notin retired)
                => Returned(resp') = Result(reqs[r].user,
                                            Claims(reqs[r].cred).session_id, "None")]_vars
\* a validation began on an unrevoked session, a logout committed, and the
\* read that came after it found the new version
C20_Witness ==
    /\ resp.view = "validate_split"
    /\ resp.repeat
    /\ resp.error = "session_version_mismatch"
    /\ Claims(resp.cred).session_version_id \in retired

\* C21: a credential that validation refuses with session_version_mismatch
\* or session_not_found is not accepted after any later step; the id of a
\* deleted session is not inserted again and no row takes a version_id that a
\* rotation replaced.
C21_RevokedStaysRevoked ==
    [][/\ \A c \in issued :
             Validate(c).error \in {"session_version_mismatch", "session_not_found"}
             => Validate(c)'.error # "None"
       /\ \A s \in DOMAIN sessions' : s \notin hardRevoked' /\ s \notin hardRevoked
       /\ \A s \in DOMAIN sessions' : sessions'[s].version_id \notin retired']_vars
\* a credential of a session its user revoked with all the others is refused
\* although the user has signed in again since
C21_Witness ==
    /\ resp.view = "validate" /\ resp.error = "session_not_found"
    /\ Claims(resp.cred).session_id \in hardRevoked
    /\ \E s \in DOMAIN sessions :
          /\ s > Claims(resp.cred).session_id
          /\ sessions[s].user_id = Claims(resp.cred).user_id

\* C22: no step changes the user_id of a UserSession row that it leaves in
\* the table, and every row belongs to the user named by the credential that
\* was minted when the row was created.
C22_OwnerNeverChanges ==
    [][/\ \A s \in DOMAIN sessions \cap DOMAIN sessions' :
             sessions'[s].user_id = sessions[s].user_id
       /\ \A c \in issued' :
             Claims(c).session_id \in DOMAIN sessions'
             => sessions'[Claims(c).session_id].user_id = Claims(c).user_id]_vars
\* a session was rotated by its user's logout while another user has sessions
C22_Witness ==
    /\ resp.view = "logout" /\ resp.status = 200
    /\ sessions[resp.session].version_id \in RotationIds
    /\ sessions[resp.session].user_id = resp.user
    /\ \E s \in DOMAIN sessions : sessions[s].user_id # resp.user

\* C23: a step that creates a session inserts exactly one row, whose id is
\* neither in the table nor the id of a deleted row and whose version_id is
\* carried by no row and no credential issued before; it leaves every
\* existing row as it was, and every credential issued before validates as
\* it did before the step.
C23_CreateSessionFrame ==
    [][nextSid' # nextSid =>
         \E sid \in DOMAIN sessions' :
            /\ sid \notin DOMAIN sessions /\ sid \notin hardRevoked
            /\ DOMAIN sessions' = DOMAIN sessions \cup {sid}
            /\ \A s \in DOMAIN sessions :
                  /\ sessions'[s] = sessions[s]
                  /\ sessions[s].version_id # sessions'[sid].version_id
            /\ sessions'[sid].version_id \notin retired
            /\ \A c \in issued :
                  /\ Claims(c).session_id # sid
                  /\ Claims(c).session_version_id # sessions'[sid].version_id
                  /\ Validate(c)' = Validate(c)]_vars
\* a second sign-in of a user whose earlier credential is still accepted
C23_Witness ==
    /\ resp.view = "signin" /\ resp.status = 200
    /\ \E c \in issued :
          /\ c # resp.cred
          /\ Claims(c).user_id = resp.user
          /\ Validate(c).error = "None"

\* C24: with an encryption key configured, a non-empty credential that Fernet
\* cannot decrypt (no Fernet token, another key, or altered bytes) gets
\* (None, None, invalid_encrypted) whatever its inner token and claims are;
\* invalid_token and token_expired are returned only for credentials that
\* decrypt.
C24_EnvelopeFirst ==
    (resp.view = "decode" /\ cfg.key # "")
    => /\ (resp.cred.form # "empty" /\ StageFails(2, resp.cred, resp.expected))
          => Returned(resp) = Result(None, None, "invalid_encrypted")
       /\ resp.error \in {"invalid_token", "token_expired"}
          => ~StageFails(2, resp.cred, resp.expected)
\* an altered Fernet token around a JWT that carries another signature or
\* has expired
C24_Witness ==
    /\ resp.view = "decode" /\ resp.error = "invalid_encrypted"
    /\ resp.cred.form \in FernetForms /\ resp.cred.key = cfg.key
    /\ ~resp.cred.intact
    /\ resp.cred.plain # NotJwt
    /\ resp.cred.plain.secret # cfg.secret \/ Expired(resp.cred)

\* C25: a decrypt_and_decode_token call whose credential decrypts and
\* verifies, and whose "type" claim differs from the expected_type passed,
\* returns (None, None, invalid_type), the same as over empty tables; no call
\* returns success for such a credential.
C25_KindMismatchRejected ==
    (/\ resp.view = "decode"
     /\ Failing(resp.cred, resp.expected) \cap {1, 2, 3} = {}
     /\ _get_fernet(cfg) = "ok" /\ _get_jwt_params(cfg) = "ok"
     /\ Claims(resp.cred).type # resp.expected)
    => /\ Returned(resp) = Result(None, None, "invalid_type")
       /\ Returned(resp) = decrypt_and_decode_token(resp.cred, resp.expected,
                                                    <<>>, <<>>, cfg, now)

\* C26: a step that changes the version_id of a row sets the row's updated_at
\* to the time of the write in the same step, and no step changes the
\* created_at of a row.
C26_RotationStampsUpdatedAt ==
    [][\A s \in DOMAIN sessions \cap DOMAIN sessions' :
          /\ sessions'[s].created_at = sessions[s].created_at
          /\ sessions'[s].version_id # sessions[s].version_id
             => sessions'[s].updated_at = now']_vars
\* a logout rotated a session some time after the session was created
C26_Witness ==
    /\ resp.view = "logout" /\ resp.status = 200
    /\ sessions[resp.session].version_id \in RotationIds
    /\ sessions[resp.session].updated_at = now
    /\ sessions[resp.session].created_at < now

\* the response hands out a credential minted in the step that made it
Minted(r) ==
    /\ r.view \in {"signup", "signin", "remint"}
    /\ r.cred.form = "fernet"
\* the claims of the credential of response r against the row of its session,
\* given whether its "iat" claim is right
MintedClaims(r, iat_ok) ==
    /\ r.session \in DOMAIN sessions
    /\ Claims(r.cred).user_id = sessions[r.session].user_id
    /\ Claims(r.cred).session_id = r.session
    /\ Claims(r.cred).session_version_id = sessions[r.session].version_id
    /\ Claims(r.cred).type = "access"
    /\ iat_ok
    /\ Claims(r.cred).exp = Claims(r.cred).iat + cfg.lifetime

\* C27 as stated: the claims of a credential just minted carry the owner, id
\* and version_id of the session's row, type access, iat equal to the time
\* of minting and exp = iat + lifetime; an issued credential stays as issued.
C27_ClaimsAtMinting ==
    [][/\ issued \subseteq issued'
       /\ Minted(resp') =>
             MintedClaims(resp, Claims(resp.cred).iat * TicksPerSecond = now)']_vars
\* C27: the claims of a credential just minted carry the owner, id and
\* version_id of the session's row, type access, iat equal to the whole
\* seconds of the time of minting and exp = iat + lifetime; an issued
\* credential stays as issued.
C27_ClaimsAtMintingWholeSeconds ==
    [][/\ issued \subseteq issued'
       /\ Minted(resp') =>
             MintedClaims(resp, Claims(resp.cred).iat = IntSeconds(now))']_vars
\* a credential minted again for a rotated session, within a second
C27_Witness ==
    /\ resp.view = "remint"
    /\ sessions[resp.session].version_id \in RotationIds
    /\ Claims(resp.cred).session_version_id = sessions[resp.session].version_id
    /\ Claims(resp.cred).iat * TicksPerSecond < now

\* C28: the soft revoke of a logout whose session row was deleted after the
\* logout validated its credential does not fault and changes no row.
C28_SoftRevokeOfMissingRow ==
    [][\A r \in ReqIds :
          (logout_revoke(r) /\ reqs[r].sid \notin DOMAIN sessions)
          => (resp'.status # 500 /\ sessions' = sessions)]_vars

\* C29: a logout or revoke-all request that is answered with a rejection
\* (401, 400) changes no UserSession row; such a request goes on to its
\* revocation only if decrypt_and_decode_token returned no error for the
\* credential of its header (and, for revoke-all, the password of the body is
\* the user's); and a row is changed or deleted only by a request that went on.
C29_RevokeOnlyAfterValidate ==
    [][/\ (resp' # resp /\ resp'.view \in {"logout", "revoke_all"}
           /\ resp'.status \in {400, 401})
          => sessions' = sessions
       /\ \A h \in Headers :
             /\ (logout_view(h) /\ reqs' # reqs)
                => /\ ~_get_bearer_token(h).none
                   /\ Validate(h.token).error = "None"
                   /\ reqs'[FirstFree("logout")].sid = Validate(h.token).session
             /\ \A p \in Bodies :
                   (revoke_all_sessions_view(h, p) /\ reqs' # reqs)
                   => /\ ~_get_bearer_token(h).none
                      /\ Validate(h.token).error = "None"
                      /\ users[Validate(h.token).user].password = make_password(p)
                      /\ reqs'[FirstFree("revoke_all")].user = Validate(h.token).user
       /\ (\E s \in DOMAIN sessions :
              s \notin DOMAIN sessions' \/ sessions'[s] # sessions[s])
          => \E r \in ReqIds :
                /\ reqs[r].pc \in {"logout_revoke", "revoke_all_loop"}
                /\ reqs'[r] # reqs[r]]_vars
\* a revoke-all refused for its password by a user who has sessions
C29_Witness ==
    /\ resp.view = "revoke_all" /\ resp.status = 400
    /\ resp.error = "None"
    /\ \E s \in DOMAIN sessions : sessions[s].user_id = resp.user

\* C30: for every credential, decrypt_and_get_payload returns the error code
\* decrypt_and_decode_token returns when that is invalid_encrypted,
\* invalid_token or token_expired (or raises as it does for a missing
\* setting), with no payload; for every other credential it returns the
\* claims of the credential and no error, whatever the tables hold.
C30_PayloadAgreesWithDecode ==
    resp.view = "get_payload"
    => IF Validate(resp.cred).error
             \in {"invalid_encrypted", "invalid_token", "token_expired",
                  "fault:RuntimeError"}
       THEN /\ resp.error = Validate(resp.cred).error
            /\ resp.payload = NotJwt.payload
       ELSE /\ resp.error = "None"
            /\ resp.payload = Claims(resp.cred)
\* the claims of a credential whose session was rotated or deleted, returned
\* without error
C30_Witness ==
    /\ resp.view = "get_payload" /\ resp.error = "None"
    /\ resp.cred \in issued
    /\ Validate(resp.cred).error \in {"session_not_found", "session_version_mismatch"}

\* C31: a validation that returns no error has read a UserSession row with
\* the session_id of the claims, owned by the user the claims name, who has a
\* User row, and carrying the session_version_id of the claims; it returns
\* that user and that session.
C31_SuccessOnlyOnMatchingRow ==
    (resp.view \in {"validate", "validate_split"} /\ resp.error = "None")
    => /\ Claims(resp.cred).session_id \in DOMAIN sessions
       /\ Claims(resp.cred).user_id \in DOMAIN users
       /\ sessions[Claims(resp.cred).session_id].user_id = Claims(resp.cred).user_id
       /\ sessions[Claims(resp.cred).session_id].version_id
             = Claims(resp.cred).session_version_id
       /\ resp.user = Claims(resp.cred).user_id
       /\ resp.session = Claims(resp.cred).session_id
\* a validation that read the row after revocations of other sessions had
\* committed, and succeeded
C31_Witness ==
    /\ resp.view = "validate_split" /\ resp.error = "None"
    /\ hardRevoked # {} \/ retired # {}
    /\ sessions[resp.session].version_id = Claims(resp.cred).session_version_id

\* C32: no step puts a row back under the id of a hard-deleted session; the
\* soft revoke of a logout whose row was deleted after the logout read it
\* leaves the table as it is.
C32_DeletedNeverReappears ==
    [][/\ \A s \in hardRevoked : s \notin DOMAIN sessions'
       /\ \A r \in ReqIds :
             (logout_revoke(r) /\ reqs[r].sid \notin DOMAIN sessions)
             => sessions' = sessions]_vars
\* a logout rotated the object of a session that a revoke-all had deleted
C32_Witness ==
    /\ resp.view = "logout" /\ resp.status = 500
    /\ resp.session \in hardRevoked
    /\ resp.session \notin DOMAIN sessions

\* C33: each turn of the revoke-all loop deletes one row, a session of the
\* requesting user that its list query returned, leaves every other row as
\* it is and every credential of a session created after the query
\* validating as before; when revoke-all answers 200 none of the sessions its
\* query returned is left, and a session the user signed in to after the
\* query, unless another revoke-all listed and deleted it, is still there and
\* its unexpired credential validates.
C33_RevokeAllDeletesListed ==
    [][/\ \A r \in ReqIds, s \in SessionIds :
             revoke_all_loop(r, s)
             => /\ sessions' = Delete(sessions, s)
                /\ s <= reqs[r].listed
                /\ s \in DOMAIN sessions => sessions[s].user_id = reqs[r].user
                /\ \A c \in issued :
                      Claims(c).session_id > reqs[r].listed
                      => Validate(c)' = Validate(c)
       /\ (resp' # resp /\ resp'.view = "revoke_all" /\ resp'.status = 200)
          => /\ \A s \in DOMAIN sessions' :
                   sessions'[s].user_id = resp'.user => s > lastRA'[resp'.user].listed
             /\ \A c \in issued :
                   (/\ Claims(c).user_id = resp'.user
                    /\ Claims(c).session_id > lastRA'[resp'.user].listed
                    /\ Claims(c).session_id \notin hardRevoked'
                    /\ Claims(c).session_version_id \notin retired
                    /\ Unexpired(c))
                   => Validate(c)' = Result(resp'.user, Claims(c).session_id, "None")]_vars
\* revoke-all answered while a session of its user, created after its list
\* query, is in the table with a credential that validates
C33_Witness ==
    /\ resp.view = "revoke_all" /\ resp.status = 200
    /\ \E c \in issued :
          /\ Claims(c).user_id = resp.user
          /\ Claims(c).session_id > lastRA[resp.user].listed
          /\ Claims(c).session_id \in DOMAIN sessions
          /\ Validate(c).error = "None"
    /\ \E s \in hardRevoked : s <= lastRA[resp.user].listed

\* C34: a sign-up or sign-in whose create_session faults (answer 500) leaves
\* the UserSession table as it was before the request.
C34_IssuanceAllOrNothing ==
    [][(resp' # resp /\ resp'.view \in {"signup", "signin"} /\ resp'.status = 500)
       => sessions' = sessions]_vars

\* C35: a change-password request, whatever it answers, changes no
\* UserSession row, and every credential validates after it as it did
\* before; a user who changed the password is still validated by each
\* credential that validated before.
C35_ChangePasswordKeepsSessions ==
    [][(resp' # resp /\ resp'.view = "change_password")
       => /\ sessions' = sessions
          /\ \A c \in issued : Validate(c)' = Validate(c)]_vars
\* a password was changed to another one by a user with two credentials that
\* validate
C35_Witness ==
    /\ resp.view = "change_password" /\ resp.status = 200
    /\ users[resp.user].password # make_password("pw1")
    /\ \E c \in issued :
          /\ c # resp.cred
          /\ Claims(c).user_id = resp.user
          /\ Validate(c).error = "None"

\* C36: a credential that decrypts and verifies, of the expected type, whose
\* claims name an existing user and an existing session of that user but
\* carry no session_version_id, gets (user, session,
\* session_version_mismatch).
C36_MissingVersionRejected ==
    (/\ resp.view = "decode"
     /\ Failing(resp.cred, resp.expected) \cap (1..9) = {}
     /\ _get_fernet(cfg) = "ok" /\ _get_jwt_params(cfg) = "ok"
     /\ Claims(resp.cred).session_version_id = None)
    => Returned(resp) = Result(Claims(resp.cred).user_id, Claims(resp.cred).session_id,
                               "session_version_mismatch")
\* such a credential was presented for a session that is in the table
C36_Witness ==
    /\ resp.view = "decode"
    /\ resp.error = "session_version_mismatch"
    /\ Claims(resp.cred).session_version_id = None
    /\ resp.session \in DOMAIN sessions
    /\ sessions[resp.session].user_id = resp.user

\* C37: a websocket is added to a group only by the connect whose
\* decrypt_and_decode_token returned a user and no error, and to the group
\* of that user; a connect without token is closed with 4001 and one whose
\* validation returned an error with 4003, in no group; a disconnected
\* websocket is in no group.
C37_GroupOnlyAfterAuth ==
    [][/\ resp'.view = "ws_auth"
          => Validate(resp'.cred) = Result(resp'.user, resp'.session, "None")
       /\ \A ch \in ChannelIds :
             /\ (reqs'[ch].pc = "authed" /\ reqs[ch].pc # "authed")
                => (resp'.view = "ws_auth" /\ reqs'[ch].user = resp'.user)
             /\ reqs'[ch].joined # None
                => /\ reqs'[ch].pc = "open"
                   /\ reqs[ch].pc \in {"authed", "open"}
                   /\ reqs'[ch].joined = reqs[ch].user
             /\ (reqs'[ch].pc = "closed" /\ reqs[ch].pc = "idle")
                => /\ reqs'[ch].joined = None
                   /\ resp'.cred.form = "empty" => reqs'[ch].code = 4001
                   /\ (/\ resp'.cred.form # "empty"
                       /\ Validate(resp'.cred).error \in AuthErrors)
                      => reqs'[ch].code = 4003
             /\ reqs'[ch].pc = "gone" => reqs'[ch].joined = None]_vars
\* a websocket was disconnected after it had joined the group of its user,
\* while another one was closed for its token
C37_Witness ==
    \E a, b \in ChannelIds :
       /\ reqs[a].pc = "gone" /\ reqs[a].group_name # None
       /\ reqs[b].pc = "closed" /\ reqs[b].code = 4003

\* C38: no step inserts a User row with user_type admin or changes the
\* user_type of a User row, and _require_admin refuses every credential
\* that sign-up or sign-in hands out or that a guarded view is asked with.
C38_NoAdminThroughSignup ==
    [][/\ \A u \in DOMAIN users' :
             /\ users'[u].user_type \in {"user", "helper"}
             /\ u \in DOMAIN users => users'[u].user_type = users[u].user_type
       /\ resp'.view \in {"signup", "signin", "guarded_view"}
          => _require_admin(Bearer(resp.cred))'.status # 200]_vars
\* a request with a valid credential of a helper who changed the password
\* was refused by _require_admin
C38_Witness ==
    /\ resp.view = "guarded_view" /\ resp.status = 403 /\ resp.error = "None"
    /\ _require_admin(Bearer(resp.cred)).status = 403
    /\ users[resp.user].user_type = "helper"
    /\ users[resp.user].password = make_password("pw2")

\* C39: once a chat message is seen, no step soft-deletes it or changes its
\* content, also when mark_seen_view is served at the same time as the delete
\* or the edit; is_seen and is_deleted never go back to false, and time_seen
\* and deleted_at, once set, keep their value.
C39_SeenIsFinal ==
    [][\A m \in MessageIds :
          /\ reqs[m].is_seen
             => /\ reqs'[m].is_seen
                /\ reqs'[m].time_seen = reqs[m].time_seen
                /\ reqs'[m].is_deleted = reqs[m].is_deleted
                /\ reqs'[m].content = reqs[m].content
          /\ reqs[m].is_deleted
             => /\ reqs'[m].is_deleted
                /\ reqs'[m].deleted_at = reqs[m].deleted_at]_vars
====
